---- MODULE Spec2Model ----
(***************************************************************************)
(* Model of the content-acquisition -> summarization -> session pipeline   *)
(* of the YouTube RAG system:                                              *)
(*   core/session_manager.py   SessionManager (metadata.json + chroma_db)  *)
(*   core/rag_engine.py        YouTubeRAG (process_video, add_video, ...)  *)
(*   core/content_processor.py ContentProcessor.generate_summary           *)
(*                                                                         *)
(* Texts of the session layer are sequences of characters; a session       *)
(* directory is a record holding the state of metadata.json and of the     *)
(* chroma_db index.  Python's None is the empty sequence <<>>, a value v   *)
(* that may be None is <<v>>.                                              *)
(***************************************************************************)
EXTENDS Integers, Sequences, FiniteSets, TLC

VARIABLES
    disk,             \* storage_dir: session name -> session directory
    current_session,  \* the session_data dict the caller holds (<<>> = None)
    rag,              \* YouTubeRAG.chunk_size / chunk_overlap / model_name / language
    clock,            \* datetime.now(), advancing with every operation
    lastOp,           \* history: the last operation and what it returned
    failedOn,         \* history: names on which a save/append has failed
    faults,           \* environment faults injected so far
    rt,               \* direct SessionManager calls: last save_session / load_session
    sum,              \* ContentProcessor.generate_summary: last call
    acq,              \* ContentProcessor.get_video_content: the call in progress
    txt,              \* text functions of ContentProcessor: last call
    appenders         \* concurrent callers of append_to_session: each one's position

vars == <<disk, current_session, rag, clock, lastOp, failedOn, faults, rt, sum, acq, txt, appenders>>

----------------------------------------------------------------------------
(* Bounds *)

MaxDocs == 3     \* documents a session may hold through appends
MaxTurns == 1    \* chat turns asked in one session
MaxClock == 5    \* operations in one behaviour
MaxFaults == 1   \* environment faults in one behaviour

----------------------------------------------------------------------------
(* Videos, transcripts, documents *)

NoUrl == [form |-> "", id |-> ""]     \* the "" that .get("source", "") yields

VideoUrls ==
    { [form |-> "watch", id |-> "a"],
      [form |-> "embed", id |-> "b"] }

extract_video_id(url) ==
    IF url.form = "watch" THEN url.id
    ELSE IF url.form = "youtu.be" THEN url.id
    ELSE "unknown"

SessionNames == {"a", "unknown"}

\* What the outside world holds for each video: its text and where it came from.
Transcript(url) ==
    IF url.id = "a" THEN <<"p", "q", "r">> ELSE <<"s">>

ContentType(url) == IF url.id = "b" THEN "transcription" ELSE "subtitles"

\* get_video_content on success
get_video_content(url) ==
    [page_content |-> Transcript(url),
     metadata |-> [source |-> url, type |-> ContentType(url)]]

\* generate_summary as seen by the session layer: some non-failing text
VideoSummary(url) == <<url.id>>

SummaryRecord(url, summary) == [video_url |-> url, summary |-> summary]


Min(a, b) == IF a <= b THEN a ELSE b
Max(a, b) == IF a >= b THEN a ELSE b

----------------------------------------------------------------------------
(* Chunking and the vector index (RecursiveCharacterTextSplitter + Chroma) *)

\* Pieces of at most chunk_size characters, consecutive pieces sharing
\* chunk_overlap characters; an empty text has no piece.
RECURSIVE SplitFrom(_, _, _, _)
SplitFrom(text, i, chunk_size, chunk_overlap) ==
    IF i > Len(text) THEN <<>>
    ELSE LET last == Min(i + chunk_size - 1, Len(text))
             step == Max(1, chunk_size - chunk_overlap)
         IN  <<SubSeq(text, i, last)>> \o
             (IF last = Len(text) THEN <<>>
              ELSE SplitFrom(text, i + step, chunk_size, chunk_overlap))

\* text_splitter.split_documents: every chunk carries its document's metadata
RECURSIVE split_documents(_, _)
split_documents(documents, model_config) ==
    IF documents = <<>> THEN <<>>
    ELSE LET doc == Head(documents)
             pieces == SplitFrom(doc.page_content, 1,
                                 model_config.chunk_size, model_config.chunk_overlap)
         IN  [k \in 1..Len(pieces) |->
                 [page_content |-> pieces[k], metadata |-> doc.metadata]]
             \o split_documents(Tail(documents), model_config)

Count(c, chunks) == Cardinality({i \in DOMAIN chunks : chunks[i] = c})

\* two chunk collections hold the same chunks, each as many times
SameChunks(s, t) ==
    /\ Len(s) = Len(t)
    /\ \A i \in DOMAIN s : Count(s[i], s) = Count(s[i], t)

\* every chunk of s is in t at least as many times
ChunksWithin(s, t) == \A i \in DOMAIN s : Count(s[i], s) <= Count(s[i], t)

----------------------------------------------------------------------------
(* SessionManager: the session directory *)

NullMetadata ==
    [session_id |-> "", persist_name |-> "", created_at |-> 0,
     model_name |-> "", chunk_size |-> 0, chunk_overlap |-> 0,
     video_url |-> NoUrl, video_urls |-> <<>>, content_type |-> "",
     summary |-> <<>>, summaries |-> <<>>, document_content |-> <<>>,
     documents |-> <<>>, chat_history |-> <<>>, language |-> ""]

\* A session directory: whether it exists, the state of metadata.json
\* ("absent", "corrupt" = undecodable, "ok"), its decoded content, whether
\* chroma_db exists and the chunks it holds.
NoDir ==
    [exists |-> FALSE, meta |-> "absent", metadata |-> NullMetadata,
     chroma |-> FALSE, index |-> <<>>]

NormalizeLanguage(language) ==
    LET l == IF language = "" THEN "zh" ELSE language
    IN  IF l \notin {"zh", "en"} THEN "en" ELSE l

\* {"content": doc.page_content, "metadata": doc.metadata} for doc in documents
DocumentRecords(documents) ==
    [i \in 1..Len(documents) |->
        [content |-> documents[i].page_content, metadata |-> documents[i].metadata]]

\* Document(page_content=item["content"], metadata=item["metadata"]) for item in records
DocumentsOfRecords_FirstOnly(records) ==
    <<[page_content |-> records[1].content, metadata |-> records[1].metadata]>>
DocumentsOfRecords(records) ==
    [i \in 1..Len(records) |->
        [page_content |-> records[i].content, metadata |-> records[i].metadata]]

SourcesOf(documents) == [i \in 1..Len(documents) |-> documents[i].metadata.source]

\* Faults of the environment during one operation:
\*   "write"      json.dump to the opened metadata.json throws
\*   "embeddings" OpenAIEmbeddings() throws, before the store is opened
\*   "index"      the embedding call inside Chroma throws, after the store is opened
Faults == {"none", "write", "embeddings", "index"}

\* try: ... except Exception as e: status_callback(...); return failure_value
\* An attempt is [dir, raised, ret]: what the try body left on disk, whether it
\* raised, and what it returned if it did not.
ExceptReturn_Propagate(attempt, failure_value) == attempt
ExceptReturn(attempt, failure_value) ==
    IF attempt.raised
    THEN [dir |-> attempt.dir, raised |-> FALSE, ret |-> failure_value]
    ELSE attempt

Returned(dir, ret) == [dir |-> dir, raised |-> FALSE, ret |-> ret]
Raised(dir) == [dir |-> dir, raised |-> TRUE, ret |-> "exception"]

\* _build_vector_db: chunk and embed all documents into a fresh store
_build_vector_db(d, documents, model_config, fault) ==
    IF fault = "embeddings" THEN d
    ELSE IF fault = "index" THEN [d EXCEPT !.chroma = TRUE, !.index = <<>>]
    ELSE [d EXCEPT !.chroma = TRUE, !.index = split_documents(documents, model_config)]

\* the try body of save_session
save_session_try(d, document, summary, model_config, persist_name, chat_history, language, documents, summaries, now, fault) ==
    LET fresh == [NoDir EXCEPT !.exists = TRUE]
        documents_list == IF documents # <<>> THEN documents ELSE <<document>>
        video_urls == SourcesOf(documents_list)
        metadata ==
            [session_id |-> persist_name, persist_name |-> persist_name,
             created_at |-> now,
             model_name |-> model_config.model_name,
             chunk_size |-> model_config.chunk_size,
             chunk_overlap |-> model_config.chunk_overlap,
             video_url |-> IF video_urls # <<>> THEN video_urls[1] ELSE NoUrl,
             video_urls |-> video_urls,
             content_type |-> document.metadata.type,
             summary |-> summary,
             summaries |-> summaries,
             document_content |-> document.page_content,
             documents |-> DocumentRecords(documents_list),
             chat_history |-> chat_history,
             language |-> NormalizeLanguage(language)]
        written == [fresh EXCEPT !.meta = "ok", !.metadata = metadata]
        built == _build_vector_db(written, documents_list, model_config, fault)
    IN  IF fault = "write"
        THEN Raised([fresh EXCEPT !.meta = "corrupt"])
        ELSE IF fault \in {"embeddings", "index"}
        THEN Raised(built)
        ELSE Returned(built, <<persist_name>>)

\* save_session: the new directory and the returned name (<<>> = None)
save_session(d, document, summary, model_config, persist_name, chat_history, language, documents, summaries, now, fault) ==
    ExceptReturn(save_session_try(d, document, summary, model_config, persist_name,
                                  chat_history, language, documents, summaries, now, fault),
                 <<>>)

\* _load_vector_db: Chroma(persist_directory=...) opens the store, creating an
\* empty one when the directory is missing; the retriever serves its chunks
_load_vector_db(d) == [d EXCEPT !.chroma = TRUE]

\* the try body of load_session
load_session_try(d, persist_name) ==
    IF ~d.exists \/ d.meta # "ok"
    THEN Raised(d)
    ELSE LET metadata == d.metadata
             documents ==
                 IF metadata.documents # <<>>
                 THEN DocumentsOfRecords(metadata.documents)
                 ELSE <<[page_content |-> metadata.document_content,
                         metadata |-> [source |-> metadata.video_url,
                                       type |-> metadata.content_type]]>>
             opened == _load_vector_db(d)
         IN  Returned(opened,
                      <<[document |-> documents[1],
                         summary |-> metadata.summary,
                         retriever |-> opened.index,
                         metadata |-> metadata,
                         chat_history |-> metadata.chat_history,
                         documents |-> documents,
                         summaries |-> metadata.summaries,
                         video_urls |-> metadata.video_urls]>>)

\* load_session: the directory afterwards and the session dict (<<>> = None)
load_session(d, persist_name) == ExceptReturn(load_session_try(d, persist_name), <<>>)

\* shutil.rmtree(session_path) removes the entries one by one: it either
\* finishes, or raises with some of them already removed
RmtreeOutcomes == {"removed", "failed_untouched", "failed_metadata_gone", "failed_index_gone"}

rmtree(d, outcome) ==
    CASE outcome = "removed" -> NoDir
      [] outcome = "failed_metadata_gone" ->
             IF d.exists THEN [d EXCEPT !.meta = "absent", !.metadata = NullMetadata] ELSE d
      [] outcome = "failed_index_gone" ->
             IF d.exists THEN [d EXCEPT !.chroma = FALSE, !.index = <<>>] ELSE d
      [] OTHER -> d

\* self.storage_dir / persist_name is the sessions root itself for "." (and "")
RootIds == {"."}

\* the try body of delete_session over the sessions root ds (name -> directory)
delete_session_try(ds, persist_name, outcome) ==
    IF persist_name \in RootIds
    THEN [dir |-> [n \in DOMAIN ds |-> rmtree(ds[n], outcome)],
          raised |-> outcome # "removed", ret |-> TRUE]
    ELSE IF persist_name \notin DOMAIN ds \/ ~ds[persist_name].exists
    THEN Returned(ds, FALSE)
    ELSE [dir |-> [ds EXCEPT ![persist_name] = rmtree(@, outcome)],
          raised |-> outcome # "removed", ret |-> TRUE]

\* delete_session
delete_session(ds, persist_name, outcome) ==
    ExceptReturn(delete_session_try(ds, persist_name, outcome), FALSE)

RECURSIVE SortByCreatedDesc_Ascending(_)
SortByCreatedDesc_Ascending(entries) ==
    IF entries = {} THEN <<>>
    ELSE LET oldest == CHOOSE e \in entries :
                           \A f \in entries : e.created_at <= f.created_at
         IN  <<oldest>> \o SortByCreatedDesc_Ascending(entries \ {oldest})
\* the entries of list_sessions, newest first
RECURSIVE SortByCreatedDesc(_)
SortByCreatedDesc(entries) ==
    IF entries = {} THEN <<>>
    ELSE LET newest == CHOOSE e \in entries :
                           \A f \in entries : f.created_at <= e.created_at
         IN  <<newest>> \o SortByCreatedDesc(entries \ {newest})

\* the try body of list_sessions: every directory holding a metadata.json is
\* decoded; an undecodable one raises
list_sessions_try(ds) ==
    LET listed == {n \in DOMAIN ds : ds[n].exists /\ ds[n].meta # "absent"}
    IN  IF \E n \in listed : ds[n].meta = "corrupt"
        THEN Raised(ds)
        ELSE Returned(ds, SortByCreatedDesc(
                 {[name |-> n,
                   created_at |-> ds[n].metadata.created_at,
                   video_url |-> ds[n].metadata.video_url,
                   model_name |-> ds[n].metadata.model_name,
                   content_type |-> ds[n].metadata.content_type] : n \in listed}))

\* list_sessions
list_sessions(ds) == ExceptReturn(list_sessions_try(ds), <<>>)

\* the try body of update_chat_history: metadata.json is read, then opened
\* for writing (which empties it) and dumped
update_chat_history_try(d, chat_history, fault) ==
    IF ~d.exists \/ d.meta # "ok"
    THEN Raised(d)
    ELSE IF fault = "write"
    THEN Raised([d EXCEPT !.meta = "corrupt", !.metadata = NullMetadata])
    ELSE Returned([d EXCEPT !.metadata.chat_history = chat_history], TRUE)

\* update_chat_history
update_chat_history(d, chat_history, fault) ==
    ExceptReturn(update_chat_history_try(d, chat_history, fault), FALSE)

\* the try body of append_to_session, metadata rewritten first and the index
\* extended second
append_to_session_try(d, documents, new_documents, summaries, combined_summary, combined_document, chat_history, language, model_config, fault) ==
    IF ~d.exists \/ d.meta # "ok"
    THEN Raised(d)
    ELSE LET video_urls == SourcesOf(documents)
             metadata ==
                 [d.metadata EXCEPT
                    !.documents = DocumentRecords(documents),
                    !.document_content = combined_document.page_content,
                    !.content_type = combined_document.metadata.type,
                    !.summary = combined_summary,
                    !.summaries = summaries,
                    !.chat_history = chat_history,
                    !.language = language,
                    !.video_urls = video_urls,
                    !.video_url = IF video_urls # <<>> THEN video_urls[1] ELSE @]
             written == [d EXCEPT !.metadata = metadata]
             new_chunks == split_documents(new_documents, model_config)
         IN  IF fault = "write"
             THEN Raised([d EXCEPT !.meta = "corrupt", !.metadata = NullMetadata])
             ELSE IF new_chunks = <<>>
             THEN Returned(written, TRUE)
             ELSE IF fault = "embeddings"
             THEN Raised(written)
             ELSE IF fault = "index"
             THEN Raised([written EXCEPT !.chroma = TRUE])
             ELSE Returned([written EXCEPT !.chroma = TRUE, !.index = @ \o new_chunks],
                           TRUE)

\* append_to_session
append_to_session(d, documents, new_documents, summaries, combined_summary, combined_document, chat_history, language, model_config, fault) ==
    ExceptReturn(append_to_session_try(d, documents, new_documents, summaries,
                                       combined_summary, combined_document, chat_history,
                                       language, model_config, fault),
                 FALSE)

----------------------------------------------------------------------------
(* YouTubeRAG: the callers of SessionManager *)

\* YouTubeRAG(...) as the UI builds it (defaults) and as the command line
\* may build it (--chunk-size, --chunk-overlap)
RagConfigs ==
    { [chunk_size |-> 1000, chunk_overlap |-> 20, model_name |-> "gpt-5-mini", language |-> "zh"],
      [chunk_size |-> 2, chunk_overlap |-> 0, model_name |-> "gpt-5-mini", language |-> "zh"] }

DefaultRag ==
    [chunk_size |-> 1000, chunk_overlap |-> 20, model_name |-> "gpt-5-mini", language |-> "zh"]

ModelConfig(r) ==
    [model_name |-> r.model_name, chunk_size |-> r.chunk_size, chunk_overlap |-> r.chunk_overlap]

\* "\n\n".join(doc.page_content for doc in documents)
RECURSIVE JoinContents(_)
JoinContents(documents) ==
    IF documents = <<>> THEN <<>>
    ELSE IF Len(documents) = 1 THEN documents[1].page_content
    ELSE documents[1].page_content \o <<"\n", "\n">> \o JoinContents(Tail(documents))

\* "\n\n" + "-" * 50 + "\n\n"
SummarySeparator == <<"\n\n", "-50", "\n\n">>

\* YouTubeRAG.load_session: SessionManager.load_session, then the model
\* settings are taken over from the loaded metadata
rag_load_session(d, persist_name, r) ==
    LET res == load_session(d, persist_name)
    IN  IF res.ret = <<>>
        THEN [dir |-> res.dir, ret |-> <<>>, rag |-> r]
        ELSE LET data == res.ret[1]
                 r2 == [chunk_size |-> data.metadata.chunk_size,
                        chunk_overlap |-> data.metadata.chunk_overlap,
                        model_name |-> data.metadata.model_name,
                        language |-> data.metadata.language]
             IN  [dir |-> res.dir,
                  ret |-> <<[document |-> data.document,
                             summary |-> data.summary,
                             retriever |-> data.retriever,
                             metadata |-> data.metadata,
                             chat_history |-> data.chat_history,
                             documents |-> data.documents,
                             summaries |-> data.summaries,
                             video_urls |-> data.video_urls,
                             session_name |-> persist_name,
                             language |-> r2.language]>>,
                  rag |-> r2]

\* every operation takes time
Tick ==
    /\ clock < MaxClock
    /\ clock' = clock + 1

\* an operation may meet a fault while the fault budget lasts
Inject(fault) ==
    /\ fault = "none" \/ faults < MaxFaults
    /\ faults' = IF fault = "none" THEN faults ELSE faults + 1

Op(op, name, ret) == [op |-> op, name |-> name, ret |-> ret]

Init ==
    /\ disk = [n \in SessionNames |-> NoDir]
    /\ current_session = <<>>
    /\ rag = DefaultRag
    /\ clock = 0
    /\ appenders = <<>>
    /\ lastOp = Op("init", "", "n/a")
    /\ failedOn = {}
    /\ faults = 0
    /\ rt = <<>>
    /\ sum = <<>>
    /\ acq = <<>>
    /\ txt = <<>>

\* process_video(url): acquire, summarize, save under the video id, reload
ProcessVideoSummarized(url, cfg, contentOk, fault, summary) ==
    /\ current_session = <<>>
    /\ Tick
    /\ Inject(fault)
    /\ LET video_id == extract_video_id(url)
           document == get_video_content(url)
           summaries == <<SummaryRecord(url, summary)>>
           saved == save_session(disk[video_id], document, summary, ModelConfig(cfg),
                                 video_id, <<>>, cfg.language, <<document>>,
                                 summaries, clock + 1, fault)
           loaded == rag_load_session(saved.dir, video_id, cfg)
       IN  IF ~contentOk
           THEN /\ lastOp' = Op("process_video", video_id, "n/a")
                /\ rag' = cfg
                /\ UNCHANGED <<disk, current_session, failedOn, appenders>>
           ELSE IF saved.ret = <<>>
           THEN /\ disk' = [disk EXCEPT ![video_id] = saved.dir]
                /\ lastOp' = Op("process_video", video_id, "fail")
                /\ failedOn' = failedOn \cup {video_id}
                /\ rag' = cfg
                /\ UNCHANGED current_session
           ELSE /\ disk' = [disk EXCEPT ![video_id] = loaded.dir]
                /\ lastOp' = Op("process_video", video_id, "ok")
                /\ rag' = loaded.rag
                /\ current_session' =
                     IF loaded.ret = <<>> THEN <<>>
                     ELSE <<[loaded.ret[1] EXCEPT
                               !.chat_history = <<>>,
                               !.language = cfg.language,
                               !.summary = summary,
                               !.summaries = summaries,
                               !.documents = <<document>>,
                               !.document = document,
                               !.video_urls = <<url>>]>>
                /\ UNCHANGED failedOn
    /\ UNCHANGED <<rt, sum, acq, txt, appenders>>

ProcessVideo(url, cfg, contentOk, fault) ==
    ProcessVideoSummarized(url, cfg, contentOk, fault, VideoSummary(url))

\* the caller loads a saved session by name with a fresh YouTubeRAG()
LoadSession(name) ==
    /\ current_session = <<>>
    /\ Tick
    /\ LET loaded == rag_load_session(disk[name], name, DefaultRag)
       IN  /\ disk' = [disk EXCEPT ![name] = loaded.dir]
           /\ current_session' = loaded.ret
           /\ rag' = loaded.rag
           /\ lastOp' = Op("load_session", name, IF loaded.ret = <<>> THEN "fail" ELSE "ok")
    /\ UNCHANGED <<failedOn, faults, rt, sum, acq, txt, appenders>>

\* add_video_to_session(current_session, url), the result replacing current_session
AddVideoSummarized(url, contentOk, fault, summary) ==
    /\ current_session # <<>>
    /\ Len(current_session[1].documents) < MaxDocs
    /\ Tick
    /\ Inject(fault)
    /\ LET session_data == current_session[1]
           document == get_video_content(url)
           documents == Append(session_data.documents, document)
           summaries == Append(session_data.summaries, SummaryRecord(url, summary))
           combined_summary ==
               IF session_data.summary # <<>>
               THEN session_data.summary \o SummarySeparator \o summary
               ELSE summary
           primary_source ==
               IF session_data.video_urls # <<>> THEN session_data.video_urls[1] ELSE url
           combined_document ==
               [page_content |-> JoinContents(documents),
                metadata |-> [source |-> primary_source, type |-> "combined"]]
           persist_name == session_data.session_name
           chat_history == session_data.chat_history
           appended == append_to_session(disk[persist_name], documents, <<document>>,
                                         summaries, combined_summary, combined_document,
                                         chat_history, rag.language, ModelConfig(rag), fault)
           refreshed == rag_load_session(appended.dir, persist_name, rag)
       IN  IF ~contentOk
           THEN /\ lastOp' = Op("add_video", persist_name, "n/a")
                /\ UNCHANGED <<disk, current_session, rag, failedOn, appenders>>
           ELSE IF ~appended.ret
           THEN /\ disk' = [disk EXCEPT ![persist_name] = appended.dir]
                /\ lastOp' = Op("add_video", persist_name, "fail")
                /\ failedOn' = failedOn \cup {persist_name}
                /\ UNCHANGED <<current_session, rag, appenders>>
           ELSE /\ disk' = [disk EXCEPT ![persist_name] = refreshed.dir]
                /\ lastOp' = Op("add_video", persist_name, "ok")
                /\ rag' = refreshed.rag
                /\ current_session' =
                     IF refreshed.ret = <<>> THEN current_session
                     ELSE <<[refreshed.ret[1] EXCEPT
                               !.chat_history = chat_history,
                               !.summary = combined_summary,
                               !.summaries = summaries,
                               !.documents = documents,
                               !.document = combined_document,
                               !.video_urls =
                                   IF \E i \in DOMAIN @ : @[i] = url
                                   THEN @ ELSE Append(@, url)]>>
                /\ UNCHANGED failedOn
    /\ UNCHANGED <<rt, sum, acq, txt, appenders>>

AddVideo(url, contentOk, fault) == AddVideoSummarized(url, contentOk, fault, VideoSummary(url))

\* 'save as NAME': YouTubeRAG.save_session(document, summary, NAME, chat_history)
SaveAs(name, fault) ==
    /\ current_session # <<>>
    /\ Tick
    /\ Inject(fault)
    /\ LET session_data == current_session[1]
           saved == save_session(disk[name], session_data.document, session_data.summary,
                                 ModelConfig(rag), name, session_data.chat_history,
                                 rag.language, <<>>, <<>>, clock + 1, fault)
       IN  /\ disk' = [disk EXCEPT ![name] = saved.dir]
           /\ lastOp' = Op("save_as", name, IF saved.ret = <<>> THEN "fail" ELSE "ok")
           /\ failedOn' = IF saved.ret = <<>> THEN failedOn \cup {name} ELSE failedOn
    /\ UNCHANGED <<current_session, rag, rt, sum, acq, txt, appenders>>

\* a question: the turn is added to the session's chat history and persisted
Ask(answerOk, fault) ==
    /\ current_session # <<>>
    /\ Len(current_session[1].chat_history) < MaxTurns
    /\ Tick
    /\ Inject(fault)
    /\ LET session_data == current_session[1]
           chat_history == Append(session_data.chat_history, <<"question", "answer">>)
           updated == update_chat_history(disk[session_data.session_name], chat_history, fault)
       IN  IF ~answerOk
           THEN /\ lastOp' = Op("ask", session_data.session_name, "n/a")
                /\ UNCHANGED <<disk, current_session, appenders>>
           ELSE /\ current_session' = <<[session_data EXCEPT !.chat_history = chat_history]>>
                /\ disk' = [disk EXCEPT ![session_data.session_name] = updated.dir]
                /\ lastOp' = Op("ask", session_data.session_name,
                                IF updated.ret THEN "ok" ELSE "fail")
    /\ UNCHANGED <<rag, failedOn, rt, sum, acq, txt, appenders>>

\* --delete-session NAME from the command line
DeleteSession(name) ==
    /\ Tick
    /\ LET deleted == delete_session(disk, name, "removed")
       IN  /\ disk' = deleted.dir
           /\ lastOp' = Op("delete_session", name, IF deleted.ret THEN "ok" ELSE "fail")
    /\ UNCHANGED <<current_session, rag, failedOn, faults, rt, sum, acq, txt, appenders>>

\* 'reset': the caller drops its session
Reset ==
    /\ current_session # <<>>
    /\ Tick
    /\ current_session' = <<>>
    /\ rag' = DefaultRag
    /\ lastOp' = Op("reset", "", "n/a")
    /\ UNCHANGED <<disk, failedOn, faults, rt, sum, acq, txt, appenders>>

Next ==
    \/ \E url \in VideoUrls, cfg \in RagConfigs, contentOk \in BOOLEAN, fault \in Faults :
          ProcessVideo(url, cfg, contentOk, fault)
    \/ \E name \in SessionNames : LoadSession(name)
    \/ \E url \in VideoUrls, contentOk \in BOOLEAN, fault \in Faults :
          AddVideo(url, contentOk, fault)
    \/ \E name \in SessionNames, fault \in Faults : SaveAs(name, fault)
    \/ \E answerOk \in BOOLEAN, fault \in Faults : Ask(answerOk, fault)
    \/ \E name \in SessionNames : DeleteSession(name)
    \/ Reset

Spec == Init /\ [][Next]_vars

----------------------------------------------------------------------------
(* Consistency of metadata.json and the index *)

MetaDocuments(d) == DocumentsOfRecords(d.metadata.documents)

RecordedConfig(d) ==
    [model_name |-> d.metadata.model_name,
     chunk_size |-> d.metadata.chunk_size,
     chunk_overlap |-> d.metadata.chunk_overlap]

\* the chunks of the documents that metadata.json lists
ExpectedChunks(d) == split_documents(MetaDocuments(d), RecordedConfig(d))

\* no listed document lacks chunks in the index
ListedDocumentsIndexed(d) == d.meta = "ok" => ChunksWithin(ExpectedChunks(d), d.index)

\* the index holds exactly the chunks of the listed documents
IndexMatchesDocuments(d) == d.meta = "ok" /\ SameChunks(ExpectedChunks(d), d.index)

\* C1: during append_to_session, also when the index extension fails,
\* metadata.json never comes to list a document whose chunks are not in the
\* index: a session whose listed documents were all indexed before an append
\* still has all its listed documents indexed after it, however the append ended.
C1_MetadataNeverAheadOfIndex ==
    [][ (lastOp'.op = "add_video" /\ ListedDocumentsIndexed(disk[lastOp'.name]))
          => ListedDocumentsIndexed(disk'[lastOp'.name]) ]_vars

\* C2: after save_session and append_to_session calls that all returned
\* success on a session, the index of that session holds exactly the chunks of
\* the documents listed in its metadata.json.
C2_IndexMatchesDocuments ==
    ( /\ lastOp.op \in {"process_video", "save_as", "add_video"}
      /\ lastOp.ret = "ok"
      /\ lastOp.name \notin failedOn )
    => IndexMatchesDocuments(disk[lastOp.name])

\* C3: a successful append to a session holding N documents leaves metadata
\* whose video_urls, documents and summaries all have length N+1, with
\* video_urls[i] the source of documents[i], and whose first N entries are the
\* previous entries in their previous order (stated here for behaviours in
\* which no operation has met a fault).
C3_AppendAlignment ==
    [][ (lastOp'.op = "add_video" /\ lastOp'.ret = "ok" /\ faults' = 0) =>
          LET old == disk[lastOp'.name].metadata
              new == disk'[lastOp'.name].metadata
              N == Len(old.documents)
          IN  /\ Len(new.documents) = N + 1
              /\ Len(new.video_urls) = N + 1
              /\ Len(new.summaries) = N + 1
              /\ \A i \in 1..(N + 1) : new.video_urls[i] = new.documents[i].metadata.source
              /\ SubSeq(new.documents, 1, N) = old.documents
              /\ SubSeq(new.video_urls, 1, N) = old.video_urls
              /\ SubSeq(new.summaries, 1, N) = old.summaries ]_vars

\* C4: when save_session fails (returns None), no partially written session
\* directory remains, and a later load_session of that name returns None.
C4_FailedSaveLeavesNoSession ==
    (lastOp.op \in {"process_video", "save_as"} /\ lastOp.ret = "fail")
    => /\ ~disk[lastOp.name].exists
       /\ load_session(disk[lastOp.name], lastOp.name).ret = <<>>

\* C5: load_session returns a session only when both metadata.json and the
\* persisted index of that session exist and are readable.
C5_LoadNeedsBothArtifacts ==
    [][ (lastOp'.op = "load_session" /\ lastOp'.ret = "ok")
          => /\ disk[lastOp'.name].meta = "ok"
             /\ disk[lastOp'.name].chroma ]_vars

\* C6: once a session exists, its documents, summaries and index change only
\* through append, its chat history only through append or a chat-history
\* update, and it ceases to exist only through delete_session; creating a
\* session under its name never replaces or alters it (stated for sessions
\* on which no save or append has failed).
C6_CreatedOnce ==
    [][ \A n \in SessionNames :
          (disk[n].meta = "ok" /\ disk[n].chroma /\ n \notin failedOn) =>
            /\ ( /\ disk'[n].meta = "ok"
                 /\ \/ disk'[n].metadata.documents # disk[n].metadata.documents
                    \/ disk'[n].metadata.summaries # disk[n].metadata.summaries
                    \/ disk'[n].index # disk[n].index )
               => (lastOp'.op = "add_video" /\ lastOp'.name = n)
            /\ ( /\ disk'[n].meta = "ok"
                 /\ disk'[n].metadata.chat_history # disk[n].metadata.chat_history )
               => (lastOp'.op \in {"add_video", "ask"} /\ lastOp'.name = n)
            /\ ~disk'[n].exists
               => (lastOp'.op = "delete_session" /\ lastOp'.name = n) ]_vars

----------------------------------------------------------------------------
(* SessionManager called directly: save_session with any documents and    *)
(* summaries, then load_session                                            *)

MaxSupplied == 2    \* documents (and summary records) handed to save_session
MaxStoreOps == 2    \* direct calls in one behaviour

SeqsUpTo(S, n) == UNION {[1..k -> S] : k \in 0..n}

\* the session the direct calls work on
StoreNames == {"a"}

SuppliedDocuments == {get_video_content(url) : url \in VideoUrls}

SuppliedSummaries == {SummaryRecord(url, VideoSummary(url)) : url \in VideoUrls}

RtIdle ==
    [name |-> "", document |-> get_video_content(CHOOSE url \in VideoUrls : url.id = "a"),
     documents |-> <<>>, summaries |-> <<>>, ret |-> <<>>, loaded |-> <<>>]

InitStore ==
    /\ disk = [n \in SessionNames |-> NoDir]
    /\ current_session = <<>>
    /\ rag = DefaultRag
    /\ clock = 0
    /\ appenders = <<>>
    /\ lastOp = Op("init", "", "n/a")
    /\ failedOn = {}
    /\ faults = 0
    /\ rt = RtIdle
    /\ sum = <<>>
    /\ acq = <<>>
    /\ txt = <<>>

\* save_session(document, summary, model_config, name, documents=..., summaries=...)
StoreSave(name, document, documents, summaries, fault) ==
    /\ clock + 1 < MaxStoreOps    \* the last call of a behaviour is a load
    /\ documents # <<>> => document = documents[1]
    /\ Tick
    /\ Inject(fault)
    /\ LET saved == save_session(disk[name], document, <<"summary">>, ModelConfig(rag),
                                 name, <<>>, rag.language, documents, summaries,
                                 clock + 1, fault)
       IN  /\ disk' = [disk EXCEPT ![name] = saved.dir]
           /\ rt' = [name |-> name, document |-> document, documents |-> documents,
                     summaries |-> summaries, ret |-> saved.ret, loaded |-> <<>>]
    /\ UNCHANGED <<current_session, rag, lastOp, failedOn, sum, acq, txt, appenders>>

\* load_session on the name of the last save_session
StoreLoad ==
    /\ rt.name # ""
    /\ clock < MaxStoreOps
    /\ Tick
    /\ LET loaded == load_session(disk[rt.name], rt.name)
       IN  /\ disk' = [disk EXCEPT ![rt.name] = loaded.dir]
           /\ rt' = [rt EXCEPT !.loaded = loaded.ret]
    /\ UNCHANGED <<current_session, rag, lastOp, failedOn, faults, sum, acq, txt, appenders>>

NextStore ==
    \/ \E name \in StoreNames, document \in SuppliedDocuments,
          documents \in SeqsUpTo(SuppliedDocuments, MaxSupplied),
          summaries \in SeqsUpTo(SuppliedSummaries, MaxSupplied),
          fault \in Faults :
          StoreSave(name, document, documents, summaries, fault)
    \/ StoreLoad

SpecStore == InitStore /\ [][NextStore]_vars

\* what save_session was given to store: documents, or [document] without them
RtSupplied == IF rt.documents # <<>> THEN rt.documents ELSE <<rt.document>>

\* C7: save_session followed by load_session on the returned name returns
\* 'documents' (content and metadata) and 'summaries' equal, element by element
\* and in the same order, to what save_session was given, for one document and
\* for several.
C7_RoundTrip ==
    (rt.ret # <<>> /\ rt.loaded # <<>>) =>
        /\ rt.loaded[1].documents = RtSupplied
        /\ rt.loaded[1].summaries = rt.summaries

\* a save of two documents with two summary records has been loaded back
C7_Witness ==
    /\ rt.ret # <<>>
    /\ rt.loaded # <<>>
    /\ Len(rt.documents) >= 2
    /\ Len(rt.summaries) >= 2
    /\ rt.documents[1] # rt.documents[2]

----------------------------------------------------------------------------
(* ContentProcessor.generate_summary                                       *)
(*                                                                         *)
(* A string is a sequence of segments; a segment stands for len characters *)
(* of w bytes each: characters off+1..off+len of transcript line id        *)
(* ("line"), a newline ("nl"), the content returned by generation call id  *)
(* ("llm"), or a fixed text of the source (any other tag).                 *)

Seg(tag, id, off, len, w) ==
    [tag |-> tag, id |-> id, off |-> off, len |-> len, w |-> w, kind |-> "text"]

\* a line of a cleaned transcript; kind is what the line reads as: "text",
\* "cue" (1 to 4 digits), "number" (5 digits or more), "timing" (holds -->),
\* "header" (starts with WEBVTT or NOTE)
LineSeg(id, len, w, kind) == [Seg("line", id, 0, len, w) EXCEPT !.kind = kind]
Fixed(tag, len) == Seg(tag, 0, 0, len, 1)
NL == Fixed("nl", 1)

\* characters of the segments lo..hi of str
RECURSIVE LenBetween(_, _, _)
LenBetween(str, lo, hi) ==
    IF lo > hi THEN 0
    ELSE IF lo = hi THEN str[lo].len
    ELSE LET mid == (lo + hi) \div 2
         IN  LenBetween(str, lo, mid) + LenBetween(str, mid + 1, hi)

\* len(str)
StrLen(str) == LenBetween(str, 1, Len(str))

\* UTF-8 bytes of the segments lo..hi of str
RECURSIVE BytesBetween(_, _, _)
BytesBetween(str, lo, hi) ==
    IF lo > hi THEN 0
    ELSE IF lo = hi THEN str[lo].len * str[lo].w
    ELSE LET mid == (lo + hi) \div 2
         IN  BytesBetween(str, lo, mid) + BytesBetween(str, mid + 1, hi)

\* len(str.encode('utf-8'))
StrBytes(str) == BytesBetween(str, 1, Len(str))

\* str[:n]
RECURSIVE Prefix(_, _)
Prefix(str, n) ==
    IF str = <<>> \/ n <= 0 THEN <<>>
    ELSE IF Head(str).len <= n
    THEN <<Head(str)>> \o Prefix(Tail(str), n - Head(str).len)
    ELSE <<[Head(str) EXCEPT !.len = n]>>

\* str.encode('utf-8')[:b].decode('utf-8', errors='ignore'): whole characters only
RECURSIVE PrefixBytes(_, _)
PrefixBytes(str, b) ==
    IF str = <<>> \/ b <= 0 THEN <<>>
    ELSE LET h == Head(str)
         IN  IF h.len * h.w <= b
             THEN <<h>> \o PrefixBytes(Tail(str), b - h.len * h.w)
             ELSE IF b \div h.w > 0 THEN <<[h EXCEPT !.len = b \div h.w]>> ELSE <<>>

\* '\n'.join(lines) for lines that are strings
RECURSIVE JoinLines(_)
JoinLines(lines) ==
    IF lines = <<>> THEN <<>>
    ELSE IF Len(lines) = 1 THEN lines[1]
    ELSE lines[1] \o <<NL>> \o JoinLines(Tail(lines))

\* text.splitlines() of a text whose lines are single segments
SplitLines(text) == SelectSeq(text, LAMBDA g : g.tag = "line")

\* A raw transcript line. kind is what the stripped line reads as before tags
\* are removed ("blank", "header", "timing", "cue", "number", "text", or
\* "tagged" when it holds <...> tags and is none of the others); inner is what
\* it reads as once the tags are removed and it is stripped again; len is the
\* length of that remainder, in characters of w bytes.
TaggedLine(inner, len, w) == [kind |-> "tagged", inner |-> inner, len |-> len, w |-> w]
RawLine(kind, len, w) ==
    [kind |-> kind, inner |-> IF kind = "tagged" THEN "text" ELSE kind, len |-> len, w |-> w]

\* _clean_subtitle_text: blank, header (WEBVTT/NOTE), timing (-->) and cue
\* number lines are dropped, then tags are removed, and lines emptied by that
\* are dropped
RECURSIVE CleanLines(_, _)
CleanLines(raw, i) ==
    IF i > Len(raw) THEN <<>>
    ELSE (IF raw[i].kind \in {"text", "tagged", "number"} /\ raw[i].len > 0
          THEN <<<<LineSeg(i, raw[i].len, raw[i].w, raw[i].inner)>>>>
          ELSE <<>>)
         \o CleanLines(raw, i + 1)

_clean_subtitle_text(raw) == JoinLines(CleanLines(raw, 1))

_estimate_tokens_Wrapping(text) == (StrLen(text) \div 3) % 4
\* _estimate_tokens: len(text) // 3
_estimate_tokens(text) == StrLen(text) \div 3

\* model_limits.get(self.model_name, 6000)
ModelLimit_DefaultOnly(model_name) == 6000
ModelLimit(model_name) ==
    CASE model_name = "gpt-5-mini" -> 100000
      [] model_name = "gpt-4o-mini" -> 100000
      [] model_name = "gpt-4o" -> 100000
      [] model_name = "gpt-4-turbo" -> 100000
      [] model_name = "gpt-4" -> 6000
      [] model_name = "gpt-3.5-turbo" -> 12000
      [] OTHER -> 6000

\* line[i:i + max_chars] for i in range(0, len(line), max_chars)
HardSplit_FirstPieceOnly(line, max_chars) ==
    <<<<[line EXCEPT !.len = Min(max_chars, line.len)]>>>>
HardSplit(line, max_chars) ==
    [j \in 1..((line.len + max_chars - 1) \div max_chars) |->
        LET i == (j - 1) * max_chars
        IN  <<[line EXCEPT !.off = line.off + i, !.len = Min(max_chars, line.len - i)]>>]

\* the loop of _chunk_text_for_summary over the lines from position i on
RECURSIVE ChunkLoop(_, _, _, _, _, _)
ChunkLoop(lines, i, chunks, current_chunk, current_len, max_chars) ==
    IF i > Len(lines)
    THEN IF current_chunk # <<>> THEN Append(chunks, JoinLines(current_chunk)) ELSE chunks
    ELSE LET line == lines[i]
             line_len == line.len + 1
         IN  IF current_len + line_len > max_chars
             THEN LET flushed == IF current_chunk # <<>>
                                 THEN Append(chunks, JoinLines(current_chunk))
                                 ELSE chunks
                      len0 == IF current_chunk # <<>> THEN 0 ELSE current_len
                  IN  IF line_len >= max_chars
                      THEN ChunkLoop(lines, i + 1, flushed \o HardSplit(line, max_chars),
                                     <<>>, len0, max_chars)
                      ELSE ChunkLoop(lines, i + 1, flushed, <<<<line>>>>,
                                     len0 + line_len, max_chars)
             ELSE ChunkLoop(lines, i + 1, chunks, Append(current_chunk, <<line>>),
                            current_len + line_len, max_chars)

_chunk_text_for_summary_NoMargin(text, max_tokens) ==
    IF _estimate_tokens(text) <= max_tokens THEN <<text>>
    ELSE ChunkLoop(SplitLines(text), 1, <<>>, <<>>, 0, Max(1000, max_tokens))
_chunk_text_for_summary(text, max_tokens) ==
    IF _estimate_tokens(text) <= max_tokens THEN <<text>>
    ELSE LET safe_tokens == Max(1000, (max_tokens * 3) \div 4)
             max_chars == Max(1000, safe_tokens)
         IN  ChunkLoop(SplitLines(text), 1, <<>>, <<>>, 0, max_chars)


\* Fixed texts of generate_summary
EmptyNotice == <<Fixed("no_usable_text", 46)>>
TruncatedNotice == <<Fixed("transcript_truncated", 68)>>
PartialHeader == <<Fixed("partial_summary", 51)>>
FailureMessage == <<Fixed("unable_to_generate", 76)>>
Ellipsis == <<Fixed("...", 3)>>
ChunkSeparator == <<Fixed("\n\n", 2)>>
SynthesisTruncated == <<Fixed("chunk_summaries_truncated", 64)>>
CombinedTruncated == <<Fixed("combined_summary_truncated", 53)>>

LanguageLabel(language) ==
    LET l0 == IF language = "" THEN "en" ELSE language
        l == IF l0 \notin {"zh", "en"} THEN "en" ELSE l0
    IN  IF l = "zh" THEN "Simplified Chinese" ELSE "English"

\* One generation call chain.invoke(...): its prompt kind, the language the
\* prompt asks for, the text handed over and whether the call returned.
Call(kind, label, input, ok) == [kind |-> kind, label |-> label, input |-> input, ok |-> ok]

\* result.content of the k-th generation call of a generate_summary
Content(k, in) == <<Seg("llm", k, 0, in.outLen, 1)>>

\* The k-th generation call raises when the environment makes it fail
CallFails(k, in) == in.failAt = k

\* "\n\n".join(chunk_summaries)
RECURSIVE JoinBetween(_, _, _)
JoinBetween(chunk_summaries, lo, hi) ==
    IF lo > hi THEN <<>>
    ELSE IF lo = hi THEN chunk_summaries[lo]
    ELSE LET mid == (lo + hi) \div 2
         IN  JoinBetween(chunk_summaries, lo, mid) \o ChunkSeparator
             \o JoinBetween(chunk_summaries, mid + 1, hi)

JoinSummaries(chunk_summaries) == JoinBetween(chunk_summaries, 1, Len(chunk_summaries))

\* the chunk loop: the k-th generation call summarizes the k-th chunk, and the
\* loop ends at the first call that raises: [raised, calls, chunk_summaries]
SummarizeChunks(chunks, in) ==
    LET label == LanguageLabel(in.language)
        failed == \E k \in 1..Len(chunks) : CallFails(k, in)
        last == IF failed THEN CHOOSE k \in 1..Len(chunks) : CallFails(k, in)
                ELSE Len(chunks)
        summarized == IF failed THEN last - 1 ELSE last
    IN  [raised |-> failed,
         calls |-> [k \in 1..last |-> Call("chunk", label, chunks[k], ~CallFails(k, in))],
         chunk_summaries |->
             [k \in 1..summarized |->
                 IF StrLen(Content(k, in)) > 1500
                 THEN Prefix(Content(k, in), 1500) \o Ellipsis
                 ELSE Content(k, in)]]

CombinedText_NoSafetyCap(chunk_summaries, max_tokens) ==
    LET joined == JoinSummaries(chunk_summaries)
    IN  IF _estimate_tokens(joined) > max_tokens
        THEN Prefix(joined, max_tokens * 2) \o SynthesisTruncated
        ELSE joined
\* the text handed to the final synthesis
CombinedText(chunk_summaries, max_tokens) ==
    LET joined == JoinSummaries(chunk_summaries)
        c1 == IF _estimate_tokens(joined) > max_tokens
              THEN Prefix(joined, max_tokens * 2) \o SynthesisTruncated
              ELSE joined
    IN  IF StrLen(c1) > 10000 THEN Prefix(c1, 10000) \o CombinedTruncated ELSE c1

\* summary = final_result.content + truncated_notice
FinalSummary_RawConcatenation(final_call, content, truncated_notice) ==
    final_call.input \o truncated_notice
FinalSummary(final_call, content, truncated_notice) == content \o truncated_notice

\* The body of the outer try: [raised, returned value, calls, bound], bound
\* telling whether cleaned_text, truncated_notice and language_label were
\* assigned before the exception
TrySummarize(in) ==
    IF ~in.llmOk
    THEN [raised |-> TRUE, value |-> <<>>, calls |-> <<>>, bound |-> FALSE,
          truncated_notice |-> <<>>]
    ELSE LET cleaned_text == _clean_subtitle_text(in.document)
             max_bytes == 500000
             too_long == StrBytes(cleaned_text) > max_bytes
             text == IF too_long THEN PrefixBytes(cleaned_text, max_bytes) ELSE cleaned_text
             truncated_notice == IF too_long THEN TruncatedNotice ELSE <<>>
             estimated_tokens == _estimate_tokens(text)
             max_tokens == ModelLimit(in.model_name)
             label == LanguageLabel(in.language)
         IN  IF cleaned_text = <<>>
             THEN [raised |-> FALSE, value |-> EmptyNotice, calls |-> <<>>, bound |-> TRUE,
                   truncated_notice |-> <<>>]
             ELSE IF estimated_tokens <= max_tokens
             THEN IF CallFails(1, in)
                  THEN [raised |-> TRUE, value |-> <<>>,
                        calls |-> <<Call("direct", label, text, FALSE)>>,
                        bound |-> TRUE, truncated_notice |-> truncated_notice]
                  ELSE [raised |-> FALSE, value |-> Content(1, in) \o truncated_notice,
                        calls |-> <<Call("direct", label, text, TRUE)>>,
                        bound |-> TRUE, truncated_notice |-> truncated_notice]
             ELSE LET chunks == _chunk_text_for_summary(text, max_tokens)
                      done == SummarizeChunks(chunks, in)
                      combined_text == CombinedText(done.chunk_summaries, max_tokens)
                      k == Len(done.calls) + 1
                      final_ok == Call("final", label, combined_text, TRUE)
                  IN  IF done.raised
                      THEN [raised |-> TRUE, value |-> <<>>, calls |-> done.calls,
                            bound |-> TRUE, truncated_notice |-> truncated_notice]
                      ELSE IF CallFails(k, in)
                      THEN [raised |-> TRUE, value |-> <<>>,
                            calls |-> Append(done.calls,
                                             Call("final", label, combined_text, FALSE)),
                            bound |-> TRUE, truncated_notice |-> truncated_notice]
                      ELSE [raised |-> FALSE,
                            value |-> FinalSummary(final_ok, Content(k, in), truncated_notice),
                            calls |-> Append(done.calls, final_ok),
                            bound |-> TRUE, truncated_notice |-> truncated_notice]

\* The body of the inner try of the except branch: one call over
\* cleaned_text[:2000]; reading a name the outer try never assigned raises
TryFallback_NoRetry(in, tried) == [raised |-> TRUE, value |-> <<>>, calls |-> tried.calls]
TryFallback(in, tried) ==
    IF ~tried.bound
    THEN [raised |-> TRUE, value |-> <<>>, calls |-> tried.calls]
    ELSE LET truncated_text == Prefix(_clean_subtitle_text(in.document), 2000)
             k == Len(tried.calls) + 1
             label == LanguageLabel(in.language)
         IN  IF in.fallbackFails
             THEN [raised |-> TRUE, value |-> <<>>,
                   calls |-> Append(tried.calls, Call("fallback", label, truncated_text, FALSE))]
             ELSE [raised |-> FALSE,
                   value |-> PartialHeader \o Content(k, in) \o tried.truncated_notice,
                   calls |-> Append(tried.calls, Call("fallback", label, truncated_text, TRUE))]

\* except Exception: return the fixed failure message
ExceptReturnFailure_Propagate(attempt) == attempt
ExceptReturnFailure(attempt) ==
    IF attempt.raised
    THEN [raised |-> FALSE, value |-> FailureMessage, calls |-> attempt.calls]
    ELSE attempt

\* generate_summary: [raised, value, calls]
generate_summary(in) ==
    LET tried == TrySummarize(in)
    IN  IF tried.raised
        THEN ExceptReturnFailure(TryFallback(in, tried))
        ELSE [raised |-> FALSE, value |-> tried.value, calls |-> tried.calls]


----------------------------------------------------------------------------
(* generate_summary applied to transcripts of every shape *)

MaxFailAt == 7    \* the generation call that may fail: none (0) or the k-th, k up to this

Repeat(line, n) == [i \in 1..n |-> line]

\* raw page_content of the documents summarized
SumDocuments ==
    { <<>>,
      <<RawLine("header", 6, 1), RawLine("timing", 29, 1), RawLine("blank", 0, 1)>>,
      <<RawLine("header", 6, 1), RawLine("cue", 1, 1), RawLine("timing", 29, 1),
        RawLine("text", 30, 1), RawLine("blank", 0, 1), RawLine("tagged", 12, 1),
        RawLine("tagged", 0, 1)>>,
      Repeat(RawLine("text", 4000, 1), 5),
      <<RawLine("text", 20000, 1)>>,
      <<RawLine("text", 18002, 1)>>,
      <<RawLine("text", 18000, 1), RawLine("text", 2, 1)>>,
      <<RawLine("text", 3000, 1), RawLine("text", 1000, 1), RawLine("timing", 29, 1),
        RawLine("text", 400, 1), RawLine("text", 9001, 1), RawLine("text", 4499, 1),
        RawLine("text", 2000, 1)>>,
      Repeat(RawLine("text", 100000, 1), 4),
      Repeat(RawLine("text", 100000, 3), 2) }

SumModels == {"gpt-4", "gpt-3.5-turbo", "gpt-4o", "local-model"}
SumLanguages == {"zh", "en", "fr"}
OutLens == {100, 2000}

SumInputs ==
    [document : SumDocuments, model_name : SumModels, language : SumLanguages,
     llmOk : BOOLEAN, failAt : 0..MaxFailAt, fallbackFails : BOOLEAN, outLen : OutLens]

\* a summarization requested and not yet run
SumPending(in) ==
    [called |-> FALSE, in |-> in, raised |-> FALSE, value |-> <<>>, calls |-> <<>>]

SumIdle ==
    SumPending([document |-> <<>>, model_name |-> "gpt-4", language |-> "en", llmOk |-> TRUE,
                failAt |-> 0, fallbackFails |-> FALSE, outLen |-> 100])

InitSum ==
    /\ disk = [n \in SessionNames |-> NoDir]
    /\ current_session = <<>>
    /\ rag = DefaultRag
    /\ clock = 0
    /\ appenders = <<>>
    /\ lastOp = Op("init", "", "n/a")
    /\ failedOn = {}
    /\ faults = 0
    /\ rt = <<>>
    /\ acq = <<>>
    /\ txt = <<>>
    /\ \E in \in SumInputs : sum = SumPending(in)

\* the call of generate_summary on the requested input
GenerateSummary ==
    /\ ~sum.called
    /\ LET out == generate_summary(sum.in)
       IN  sum' = [called |-> TRUE, in |-> sum.in, raised |-> out.raised,
                   value |-> out.value, calls |-> out.calls]
    /\ UNCHANGED <<disk, current_session, rag, clock, lastOp, failedOn, faults, rt, acq, txt, appenders>>

NextSum == GenerateSummary

SpecSum == InitSum /\ [][NextSum]_vars

\* what the last generate_summary worked on, as the code computes it
SumCleaned == _clean_subtitle_text(sum.in.document)
SumTooLong == StrBytes(SumCleaned) > 500000
SumText == IF SumTooLong THEN PrefixBytes(SumCleaned, 500000) ELSE SumCleaned
SumNotice == IF SumTooLong THEN TruncatedNotice ELSE <<>>
SumCeiling == ModelLimit(sum.in.model_name)
SumHierarchical == SumCleaned # <<>> /\ StrLen(SumText) \div 3 > SumCeiling

PrimaryCalls == SelectSeq(sum.calls, LAMBDA c : c.kind \in {"direct", "chunk", "final"})
FallbackCalls == SelectSeq(sum.calls, LAMBDA c : c.kind = "fallback")
PrimaryFailed == \E i \in DOMAIN sum.calls :
                    sum.calls[i].kind \in {"direct", "chunk", "final"} /\ ~sum.calls[i].ok

\* C8: generate_summary never raises: whatever fails (model construction, the
\* primary call, a chunk call, the final synthesis, the truncated retry), it
\* returns a string.
C8_NeverRaises ==
    sum.called => (~sum.raised /\ sum.value # <<>>)

\* the model could not be constructed, or the primary and the retry both failed
C8_Witness ==
    /\ sum.called
    /\ PrimaryFailed
    /\ Len(FallbackCalls) = 1
    /\ ~FallbackCalls[1].ok
    /\ sum.value = FailureMessage

C10_HierarchicalSynthesis ==
    ( /\ sum.called
      /\ sum.in.llmOk
      /\ SumHierarchical
      /\ \A i \in DOMAIN sum.calls : sum.calls[i].ok ) =>
        LET chunks == _chunk_text_for_summary(SumText, SumCeiling)
            n == Len(chunks)
        IN  /\ Len(sum.calls) = n + 1
            /\ \A i \in 1..n : sum.calls[i].kind = "chunk" /\ sum.calls[i].input = chunks[i]
            /\ sum.calls[n + 1].kind = "final"
            /\ sum.value = Content(n + 1, sum.in) \o SumNotice
            /\ sum.value # sum.calls[n + 1].input \o SumNotice

\* a transcript of several chunks was summarized chunk by chunk and synthesized
C10_Witness ==
    /\ sum.called
    /\ SumHierarchical
    /\ Len(sum.calls) >= 3
    /\ \A i \in DOMAIN sum.calls : sum.calls[i].ok
    /\ sum.calls[Len(sum.calls)].kind = "final"
    /\ sum.value = Content(Len(sum.calls), sum.in) \o SumNotice


\* C11: generate_summary takes the direct path (one generation call over the
\* whole text) exactly when len(text) \div 3 <= ceiling and the hierarchical
\* path exactly when len(text) \div 3 > ceiling, the ceiling being the table
\* entry of the configured model, or 6000 for a model not in the table.
C11_PathByCeiling ==
    (sum.called /\ sum.in.llmOk /\ SumCleaned # <<>>) =>
        LET tokens == StrLen(SumText) \div 3
            ceiling == CASE sum.in.model_name = "gpt-4o" -> 100000
                         [] sum.in.model_name = "gpt-3.5-turbo" -> 12000
                         [] sum.in.model_name = "gpt-4" -> 6000
                         [] OTHER -> 6000
        IN  /\ sum.calls # <<>>
            /\ tokens <= ceiling <=>
                   /\ sum.calls[1].kind = "direct"
                   /\ sum.calls[1].input = SumText
                   /\ Len(PrimaryCalls) = 1
            /\ tokens > ceiling <=> sum.calls[1].kind = "chunk"

\* a text estimated at exactly the default ceiling went the direct way under a
\* model that is not in the table
C11_Witness ==
    /\ sum.called
    /\ sum.in.llmOk
    /\ StrLen(SumText) \div 3 = 6000
    /\ sum.in.model_name = "local-model"
    /\ Len(sum.calls) >= 1
    /\ sum.calls[1].kind = "direct"


----------------------------------------------------------------------------
(* ContentProcessor.get_video_content, one external call per step *)

\* what the environment will answer to this call
SubtitleOutcomes == {"text", "empty", "none", "raises"}

\* what the yt-dlp child process wrote to one of its streams: nothing, white
\* space only, a short message inside white space, a message of 500 characters,
\* a longer one
Whitespace == Fixed("whitespace", 1)
ToolOutputs(stream) ==
    { <<>>, <<Whitespace>>, <<Whitespace, Fixed(stream, 40), Whitespace>>,
      <<Fixed(stream, 500)>>, <<Fixed(stream, 700), Whitespace>> }

AcqEnvs ==
    [subs : SubtitleOutcomes, download : BOOLEAN, whisper : BOOLEAN, speech : BOOLEAN,
     stderr : ToolOutputs("stderr"), stdout : ToolOutputs("stdout")]

\* str.strip()
RECURSIVE Strip(_)
Strip(str) ==
    IF str = <<>> THEN <<>>
    ELSE IF str[1] = Whitespace THEN Strip(Tail(str))
    ELSE IF str[Len(str)] = Whitespace THEN Strip(SubSeq(str, 1, Len(str) - 1))
    ELSE str

UnknownError == <<Fixed("unknown error", 13)>>
AudioDownloadFailed == <<Fixed("audio_download_failed", 131)>>

Snippet_Untruncated(error_msg) == IF error_msg # <<>> THEN error_msg ELSE UnknownError
\* snippet = error_msg[:500] if error_msg else "unknown error"
Snippet(error_msg) == IF error_msg # <<>> THEN Prefix(error_msg, 500) ELSE UnknownError

\* the message of the RuntimeError raised on a non-zero return code
DownloadFailure(result) ==
    LET stderr == Strip(result.stderr)
        stdout == Strip(result.stdout)
        error_msg == IF stderr # <<>> THEN stderr ELSE stdout
    IN  AudioDownloadFailed \o Snippet(error_msg)

\* _get_subtitles: the sanitized subtitle file, "" when it sanitizes to nothing,
\* None (no value) when no subtitle file was written or anything raised
_get_subtitles(url, env) ==
    CASE env.subs = "text" -> <<Transcript(url)>>
      [] env.subs = "empty" -> <<<<>>>>
      [] OTHER -> <<>>

\* "if content:" is false for None and for the empty string
Truthy(content) == content # <<>> /\ content[1] # <<>>

\* where get_video_content goes once _get_subtitles has returned
AfterSubtitles_AlwaysTranscribe(content, allow_transcription) ==
    IF Truthy(content) THEN "return_subtitles" ELSE "download"
AfterSubtitles(content, allow_transcription) ==
    IF Truthy(content) THEN "return_subtitles"
    ELSE IF ~allow_transcription THEN "raise_not_allowed"
    ELSE "download"

AcqStart(url, allow_transcription, env) ==
    [pc |-> "start", url |-> url, allow_transcription |-> allow_transcription, env |-> env,
     log |-> <<>>, result |-> <<>>, raised |-> "no", message |-> <<>>]

InitAcq ==
    /\ disk = [n \in SessionNames |-> NoDir]
    /\ current_session = <<>>
    /\ rag = DefaultRag
    /\ clock = 0
    /\ appenders = <<>>
    /\ lastOp = Op("init", "", "n/a")
    /\ failedOn = {}
    /\ faults = 0
    /\ rt = <<>>
    /\ sum = <<>>
    /\ txt = <<>>
    /\ \E url \in VideoUrls, allow_transcription \in BOOLEAN, env \in AcqEnvs :
          acq = AcqStart(url, allow_transcription, env)

AcqFrame == UNCHANGED <<disk, current_session, rag, clock, lastOp, failedOn, faults, rt, sum, txt, appenders>>

\* content = self._get_subtitles(url) and the branch taken on it
GetSubtitles ==
    /\ acq.pc = "start"
    /\ LET content == _get_subtitles(acq.url, acq.env)
           next == AfterSubtitles(content, acq.allow_transcription)
           log == Append(acq.log, "subtitles")
       IN  acq' =
             CASE next = "return_subtitles" ->
                    [acq EXCEPT !.pc = "done", !.log = log,
                                !.result = <<[page_content |-> content[1],
                                              metadata |-> [source |-> acq.url,
                                                            type |-> "subtitles"]]>>]
               [] next = "raise_not_allowed" ->
                    [acq EXCEPT !.pc = "done", !.log = log, !.raised = "not_allowed"]
               [] OTHER -> [acq EXCEPT !.pc = "download", !.log = log]
    /\ AcqFrame

\* _transcribe_audio: the yt-dlp audio download
DownloadAudio ==
    /\ acq.pc = "download"
    /\ acq' = IF acq.env.download
              THEN [acq EXCEPT !.pc = "transcribe", !.log = Append(@, "download")]
              ELSE [acq EXCEPT !.pc = "done", !.log = Append(@, "download"),
                               !.raised = "download_failed",
                               !.message = DownloadFailure(acq.env)]
    /\ AcqFrame

\* _transcribe_audio: the transcription request, then the Document is returned
TranscribeAudio ==
    /\ acq.pc = "transcribe"
    /\ acq' = IF acq.env.whisper
              THEN [acq EXCEPT !.pc = "done", !.log = Append(@, "transcribe"),
                               !.result = <<[page_content |->
                                                 IF acq.env.speech THEN Transcript(acq.url)
                                                 ELSE <<>>,
                                             metadata |-> [source |-> acq.url,
                                                           type |-> "transcription"]]>>]
              ELSE [acq EXCEPT !.pc = "done", !.log = Append(@, "transcribe"),
                               !.raised = "transcription_failed"]
    /\ AcqFrame

NextAcq == GetSubtitles \/ DownloadAudio \/ TranscribeAudio

SpecAcq == InitAcq /\ [][NextAcq]_vars

\* has the call attempted this by now
Attempted(what) == \E i \in DOMAIN acq.log : acq.log[i] = what

\* C12: subtitle retrieval is always attempted first; usable subtitles give a
\* result of type 'subtitles' with no audio download or transcription attempted;
\* no usable subtitles with transcription not allowed raises with no audio
\* download attempted; only with no usable subtitles and transcription allowed
\* is audio downloaded and then transcribed, ending in a result of type
\* 'transcription' or a raised failure.
C12_FallbackOrder ==
    /\ acq.log # <<>> => acq.log[1] = "subtitles"
    /\ acq.pc # "start" => acq.log # <<>>
    /\ (Attempted("download") \/ Attempted("transcribe")) =>
           (acq.env.subs # "text" /\ acq.allow_transcription)
    /\ Attempted("transcribe") =>
           (Len(acq.log) = 3 /\ acq.log[2] = "download" /\ acq.env.download)
    /\ acq.pc = "done" =>
         /\ (acq.result = <<>>) <=> (acq.raised # "no")
         /\ acq.env.subs = "text" =>
              /\ acq.log = <<"subtitles">>
              /\ acq.result # <<>>
              /\ acq.result[1].metadata.type = "subtitles"
              /\ acq.result[1].page_content # <<>>
         /\ (acq.env.subs # "text" /\ ~acq.allow_transcription) =>
              /\ acq.log = <<"subtitles">>
              /\ acq.raised = "not_allowed"
         /\ (acq.env.subs # "text" /\ acq.allow_transcription) =>
              /\ Attempted("download")
              /\ acq.result # <<>> =>
                   /\ acq.log = <<"subtitles", "download", "transcribe">>
                   /\ acq.result[1].metadata.type = "transcription"

\* no subtitles were found, transcription was allowed, and the audio was
\* downloaded and transcribed
C12_Witness ==
    /\ acq.pc = "done"
    /\ acq.env.subs = "none"
    /\ acq.allow_transcription
    /\ acq.log = <<"subtitles", "download", "transcribe">>
    /\ acq.result # <<>>
    /\ acq.result[1].metadata.type = "transcription"


----------------------------------------------------------------------------
(* SessionManager called operation by operation, with every failure the    *)
(* environment can produce                                                  *)

MaxOps == 3    \* SessionManager calls in one behaviour

\* ids handed to delete_session: the sessions, an id never saved, the root
DeleteIds == SessionNames \cup {"ghost"} \cup RootIds

SuppliedHistories == {<<<<"q1", "a1">>>>, <<<<"q1", "a1">>, <<"q2", "a2">>>>}

\* the last call: its arguments, whether its try body raised (failed), whether
\* the call itself raised, and what it returned
Called(op, name, arg, attempt, result) ==
    [op |-> op, name |-> name, arg |-> arg, failed |-> attempt.raised,
     raised |-> result.raised, ret |-> result.ret]

InitOps ==
    /\ disk = [n \in SessionNames |-> NoDir]
    /\ current_session = <<>>
    /\ rag = DefaultRag
    /\ clock = 0
    /\ appenders = <<>>
    /\ lastOp = [op |-> "init", name |-> "", arg |-> "", failed |-> FALSE,
                 raised |-> FALSE, ret |-> "n/a"]
    /\ failedOn = {}
    /\ faults = 0
    /\ rt = <<>>
    /\ sum = <<>>
    /\ acq = <<>>
    /\ txt = <<>>

OpsTick ==
    /\ clock < MaxOps
    /\ clock' = clock + 1

OpsFrame == UNCHANGED <<current_session, rag, failedOn, rt, sum, acq, txt, appenders>>

\* save_session(document, summary, model_config, name, documents=[document], summaries=[...])
OpsSave(name, url, fault) ==
    /\ OpsTick
    /\ Inject(fault)
    /\ LET document == get_video_content(url)
           summaries == <<SummaryRecord(url, VideoSummary(url))>>
           attempt == save_session_try(disk[name], document, VideoSummary(url),
                                       ModelConfig(rag), name, <<>>, rag.language,
                                       <<document>>, summaries, clock + 1, fault)
           result == save_session(disk[name], document, VideoSummary(url),
                                  ModelConfig(rag), name, <<>>, rag.language,
                                  <<document>>, summaries, clock + 1, fault)
       IN  /\ disk' = [disk EXCEPT ![name] = result.dir]
           /\ lastOp' = Called("save_session", name, "", attempt, result)
    /\ OpsFrame

\* load_session(name)
OpsLoad(name) ==
    /\ OpsTick
    /\ LET attempt == load_session_try(disk[name], name)
           result == load_session(disk[name], name)
       IN  /\ disk' = [disk EXCEPT ![name] = result.dir]
           /\ lastOp' = Called("load_session", name, "", attempt, result)
    /\ UNCHANGED faults
    /\ OpsFrame

\* append_to_session(name, ...) with the lists a caller builds from the
\* session as persisted and one new document
OpsAppend(name, url, fault) ==
    /\ OpsTick
    /\ Inject(fault)
    /\ Len(disk[name].metadata.documents) < MaxDocs
    /\ LET metadata == disk[name].metadata
           document == get_video_content(url)
           summary == VideoSummary(url)
           documents == Append(DocumentsOfRecords(metadata.documents), document)
           summaries == Append(metadata.summaries, SummaryRecord(url, summary))
           combined_summary ==
               IF metadata.summary # <<>>
               THEN metadata.summary \o SummarySeparator \o summary
               ELSE summary
           combined_document ==
               [page_content |-> JoinContents(documents),
                metadata |-> [source |-> documents[1].metadata.source, type |-> "combined"]]
           attempt == append_to_session_try(disk[name], documents, <<document>>, summaries,
                                            combined_summary, combined_document,
                                            metadata.chat_history, rag.language,
                                            ModelConfig(rag), fault)
           result == append_to_session(disk[name], documents, <<document>>, summaries,
                                       combined_summary, combined_document,
                                       metadata.chat_history, rag.language,
                                       ModelConfig(rag), fault)
       IN  /\ disk' = [disk EXCEPT ![name] = result.dir]
           /\ lastOp' = Called("append_to_session", name, "", attempt, result)
    /\ OpsFrame

\* update_chat_history(name, chat_history)
OpsUpdate(name, chat_history, fault) ==
    /\ OpsTick
    /\ fault \in {"none", "write"}
    /\ Inject(fault)
    /\ LET attempt == update_chat_history_try(disk[name], chat_history, fault)
           result == update_chat_history(disk[name], chat_history, fault)
       IN  /\ disk' = [disk EXCEPT ![name] = result.dir]
           /\ lastOp' = Called("update_chat_history", name, chat_history, attempt, result)
    /\ OpsFrame

\* delete_session(id)
OpsDelete(id, outcome) ==
    /\ OpsTick
    /\ Inject(IF outcome = "removed" THEN "none" ELSE "rmtree")
    /\ LET attempt == delete_session_try(disk, id, outcome)
           result == delete_session(disk, id, outcome)
       IN  /\ disk' = result.dir
           /\ lastOp' = Called("delete_session", id, "", attempt, result)
    /\ OpsFrame

\* list_sessions()
OpsList ==
    /\ OpsTick
    /\ LET attempt == list_sessions_try(disk)
           result == list_sessions(disk)
       IN  /\ disk' = result.dir
           /\ lastOp' = Called("list_sessions", "", "", attempt, result)
    /\ UNCHANGED faults
    /\ OpsFrame

NextOps ==
    \/ \E name \in SessionNames, url \in VideoUrls, fault \in Faults : OpsSave(name, url, fault)
    \/ \E name \in SessionNames : OpsLoad(name)
    \/ \E name \in SessionNames, url \in VideoUrls, fault \in Faults :
          OpsAppend(name, url, fault)
    \/ \E name \in SessionNames, chat_history \in SuppliedHistories, fault \in Faults :
          OpsUpdate(name, chat_history, fault)
    \/ \E id \in DeleteIds, outcome \in RmtreeOutcomes : OpsDelete(id, outcome)
    \/ OpsList

SpecOps == InitOps /\ [][NextOps]_vars

\* a session directory with both artifacts
Complete(d) == d.exists /\ d.meta = "ok" /\ d.chroma

\* C13: delete_session on an id for which no session exists returns False,
\* raises nothing and leaves every session directory unchanged, whatever the id.
C13_DeleteMissingIsNoop ==
    [][(lastOp'.op = "delete_session" /\ clock' # clock
        /\ (lastOp'.name \notin DOMAIN disk \/ ~disk[lastOp'.name].exists))
       => (~lastOp'.raised /\ lastOp'.ret = FALSE /\ disk' = disk)]_vars


\* C14: delete_session on an existing complete session removes metadata and
\* index as one unit: either it returned True and nothing of the session is
\* left (load_session returns null, list_sessions omits it), or it returned
\* False and the session is still complete; never one artifact without the other.
C14_DeleteIsOneUnit ==
    [][(lastOp'.op = "delete_session" /\ clock' # clock
        /\ lastOp'.name \in DOMAIN disk /\ Complete(disk[lastOp'.name]))
       => LET n == lastOp'.name
          IN  \/ /\ lastOp'.ret = TRUE
                 /\ ~disk'[n].exists
                 /\ load_session(disk'[n], n).ret = <<>>
                 /\ \A i \in DOMAIN list_sessions(disk').ret :
                        list_sessions(disk').ret[i].name # n
              \/ /\ lastOp'.ret = FALSE
                 /\ Complete(disk'[n])
                 /\ disk'[n] = disk[n]]_vars

\* What each operation returns when its try body raised
FailureValue(op) ==
    CASE op \in {"save_session", "load_session"} -> <<>>
      [] op \in {"append_to_session", "update_chat_history", "delete_session"} -> FALSE
      [] OTHER -> <<>>

\* C15: whichever step of a SessionManager operation fails, the operation
\* raises nothing and reports the failure as its value: None from save_session
\* and load_session, False from append_to_session, update_chat_history and
\* delete_session, a list from list_sessions.
C15_FailuresAreValues ==
    lastOp.op # "init" =>
        /\ ~lastOp.raised
        /\ lastOp.failed => lastOp.ret = FailureValue(lastOp.op)

\* an append whose index extension failed returned False
C15_Witness ==
    /\ lastOp.op = "append_to_session"
    /\ lastOp.failed
    /\ ~lastOp.raised
    /\ lastOp.ret = FALSE
    /\ disk[lastOp.name].meta = "ok"

\* C16: update_chat_history writes metadata only: on success the persisted
\* chat_history is the supplied one and every other metadata field and the
\* index are as before; on failure nothing persisted has changed.
C16_ChatHistoryOnly ==
    [][(lastOp'.op = "update_chat_history" /\ clock' # clock)
       => LET n == lastOp'.name
          IN  /\ lastOp'.ret = TRUE =>
                    /\ disk'[n].metadata.chat_history = lastOp'.arg
                    /\ disk'[n] = [disk[n] EXCEPT !.metadata.chat_history = lastOp'.arg]
              /\ lastOp'.ret = FALSE => disk' = disk
              /\ \A m \in DOMAIN disk \ {n} : disk'[m] = disk[m]]_vars


----------------------------------------------------------------------------
(* Sessions built by process_video and add_video_to_session alone, every   *)
(* call succeeding, the summarizer returning any string                    *)

\* what generate_summary may return for a video: result.content of the model
\* can be any string, the empty one included
IngestSummaries(url) == {VideoSummary(url), <<>>}

NextIngest ==
    \/ \E url \in VideoUrls : \E summary \in IngestSummaries(url) :
          ProcessVideoSummarized(url, DefaultRag, TRUE, "none", summary)
    \/ \E url \in VideoUrls : \E summary \in IngestSummaries(url) :
          AddVideoSummarized(url, TRUE, "none", summary)
    \/ \E name \in SessionNames : LoadSession(name)
    \/ Reset

SpecIngest == Init /\ [][NextIngest]_vars

\* the per-video summaries joined by the separator line
RECURSIVE JoinSummaryRecords(_)
JoinSummaryRecords(summaries) ==
    IF summaries = <<>> THEN <<>>
    ELSE IF Len(summaries) = 1 THEN summaries[1].summary
    ELSE summaries[1].summary \o SummarySeparator \o JoinSummaryRecords(Tail(summaries))

\* C17: in a session created by process_video and extended only by successful
\* add_video_to_session calls, the persisted 'summary' is the per-video
\* summaries of 'summaries', in ingestion order, with the separator line
\* between consecutive summaries.
C17_SummaryIsJoinedSummaries ==
    \A n \in SessionNames :
        disk[n].meta = "ok" =>
            disk[n].metadata.summary = JoinSummaryRecords(disk[n].metadata.summaries)


----------------------------------------------------------------------------
(* _chunk_text_for_summary applied to texts of every line structure *)

MaxLines == 3    \* lines of a text handed to the chunker

\* line lengths around the chunk sizes 1000 and 4500
LineLens == {0, 1, 400, 999, 1000, 1001, 2500, 4499, 4500, 9001}

\* ceilings: max_chars is 1000 for the first, 4500 for the second
ChunkCeilings == {100, 6000}

\* the text whose i-th line has lens[i] characters
TextOfLens(lens) == JoinLines([i \in 1..Len(lens) |-> <<Seg("line", i, 0, lens[i], 1)>>])

ChunkTexts == {TextOfLens(lens) : lens \in SeqsUpTo(LineLens, MaxLines) \ {<<>>}}

TxtIdle == [fn |-> "none", called |-> FALSE, text |-> <<>>, arg |-> 0, out |-> <<>>]

InitChunk ==
    /\ disk = [n \in SessionNames |-> NoDir]
    /\ current_session = <<>>
    /\ rag = DefaultRag
    /\ clock = 0
    /\ appenders = <<>>
    /\ lastOp = Op("init", "", "n/a")
    /\ failedOn = {}
    /\ faults = 0
    /\ rt = <<>>
    /\ sum = <<>>
    /\ acq = <<>>
    /\ \E text \in ChunkTexts, max_tokens \in ChunkCeilings :
          txt = [TxtIdle EXCEPT !.fn = "_chunk_text_for_summary", !.text = text,
                                !.arg = max_tokens]

TxtFrame == UNCHANGED <<disk, current_session, rag, clock, lastOp, failedOn, faults, rt, sum, acq, appenders>>

\* the call of _chunk_text_for_summary(text, max_tokens)
ChunkText ==
    /\ txt.fn = "_chunk_text_for_summary"
    /\ ~txt.called
    /\ txt' = [txt EXCEPT !.called = TRUE, !.out = _chunk_text_for_summary(txt.text, txt.arg)]
    /\ TxtFrame

NextChunk == ChunkText

SpecChunk == InitChunk /\ [][NextChunk]_vars

\* the lines and pieces of lines of the chunks, in chunk order
RECURSIVE PiecesOf(_, _)
PiecesOf(chunks, i) ==
    IF i > Len(chunks) THEN <<>>
    ELSE SelectSeq(chunks[i], LAMBDA g : g.tag = "line") \o PiecesOf(chunks, i + 1)

\* consecutive pieces of one line put together again
RECURSIVE MergePieces(_)
MergePieces(pieces) ==
    IF Len(pieces) <= 1 THEN pieces
    ELSE LET p == pieces[1]
             q == pieces[2]
         IN  IF q.id = p.id /\ p.len > 0 /\ q.off = p.off + p.len
             THEN MergePieces(<<[p EXCEPT !.len = p.len + q.len]>> \o Tail(Tail(pieces)))
             ELSE <<p>> \o MergePieces(Tail(pieces))

\* C18: _chunk_text_for_summary drops nothing and adds nothing: the chunks,
\* joined at the chunk boundaries, are the lines of the text with every
\* character of every line, in order.
C18_ChunksKeepEveryCharacter ==
    txt.called =>
        /\ MergePieces(PiecesOf(txt.out, 1)) = SplitLines(txt.text)
        /\ \A i \in DOMAIN txt.out : \A j \in DOMAIN txt.out[i] :
               txt.out[i][j].tag \in {"line", "nl"}

\* a text of three lines, one longer than a chunk, was cut into several chunks
C18_Witness ==
    /\ txt.called
    /\ Len(SplitLines(txt.text)) = 3
    /\ Len(txt.out) >= 4
    /\ \E i \in DOMAIN txt.out : txt.out[i][1].off > 0

\* ---------------------------------------------------------------------------
\* The sanitizer: _clean_subtitle_text and _sanitize_text_for_storage on raw
\* subtitle texts
\* ---------------------------------------------------------------------------

MaxRawLines == 2
MaxBytes == 9

\* the lines a raw subtitle text is made of
RawLines ==
    {RawLine("text", l, w) : l \in {1, 4}, w \in {1, 3}}
    \cup {RawLine("blank", 0, 1), RawLine("header", 6, 1), RawLine("timing", 29, 1),
          RawLine("cue", 2, 1), RawLine("number", 5, 1)}
    \cup {TaggedLine("text", 2, w) : w \in {1, 3}}
    \cup {TaggedLine("blank", 0, 1), TaggedLine("cue", 2, 1),
          TaggedLine("header", 6, 1), TaggedLine("timing", 3, 1)}

RawTexts == SeqsUpTo(RawLines, MaxRawLines)

ByteCeilings == 0..MaxBytes

\* a string as the sequence of its characters
RECURSIVE Chars(_, _)
Chars(str, i) ==
    IF i > Len(str) THEN <<>>
    ELSE [k \in 1..str[i].len |->
             [tag |-> str[i].tag, id |-> str[i].id, pos |-> str[i].off + k - 1,
              w |-> str[i].w, kind |-> str[i].kind]]
         \o Chars(str, i + 1)

\* the characters put back into segments
RECURSIVE StrOfChars(_)
StrOfChars(chars) ==
    IF chars = <<>> THEN <<>>
    ELSE LET c == Head(chars)
             rest == StrOfChars(Tail(chars))
             one == [tag |-> c.tag, id |-> c.id, off |-> c.pos, len |-> 1, w |-> c.w,
                     kind |-> c.kind]
         IN  IF /\ rest # <<>>
                /\ [rest[1] EXCEPT !.off = c.pos, !.len = 1] = one
                /\ rest[1].off = c.pos + 1
             THEN <<[rest[1] EXCEPT !.off = c.pos, !.len = @ + 1]>> \o Tail(rest)
             ELSE <<one>> \o rest

\* str.encode('utf-8'): every character gives its w bytes, in order
RECURSIVE encode(_, _)
encode(chars, i) ==
    IF i > Len(chars) THEN <<>>
    ELSE [k \in 1..chars[i].w |-> [c |-> chars[i], k |-> k]] \o encode(chars, i + 1)

ReplacementChar == [tag |-> "replacement", id |-> 0, pos |-> 0, w |-> 3, kind |-> "text"]

\* a character begins at byte i and all of its bytes are there
WholeCharAt(bytes, i) ==
    /\ bytes[i].k = 1
    /\ i + bytes[i].c.w - 1 <= Len(bytes)
    /\ \A j \in 1..(bytes[i].c.w - 1) : bytes[i + j] = [c |-> bytes[i].c, k |-> j + 1]

RECURSIVE decode_Replace(_, _)
decode_Replace(bytes, i) ==
    IF i > Len(bytes) THEN <<>>
    ELSE IF WholeCharAt(bytes, i)
         THEN <<bytes[i].c>> \o decode_Replace(bytes, i + bytes[i].c.w)
         ELSE <<ReplacementChar>> \o decode_Replace(bytes, i + 1)
\* bytes.decode('utf-8', errors='ignore'): bytes that do not make a whole
\* character are skipped
RECURSIVE decode(_, _)
decode(bytes, i) ==
    IF i > Len(bytes) THEN <<>>
    ELSE IF WholeCharAt(bytes, i)
         THEN <<bytes[i].c>> \o decode(bytes, i + bytes[i].c.w)
         ELSE decode(bytes, i + 1)

_sanitize_text_for_storage(raw, max_bytes) ==
    IF raw = <<>> THEN <<>>
    ELSE LET cleaned == _clean_subtitle_text(raw)
         IN  IF cleaned = <<>> THEN <<>>
             ELSE LET encoded == encode(Chars(cleaned, 1), 1)
                  IN  IF Len(encoded) <= max_bytes THEN cleaned
                      ELSE StrOfChars(decode(SubSeq(encoded, 1, max_bytes), 1))

InitText ==
    /\ disk = [n \in SessionNames |-> NoDir]
    /\ current_session = <<>>
    /\ rag = DefaultRag
    /\ clock = 0
    /\ appenders = <<>>
    /\ lastOp = Op("init", "", "n/a")
    /\ failedOn = {}
    /\ faults = 0
    /\ rt = <<>>
    /\ sum = <<>>
    /\ acq = <<>>
    /\ \E raw \in RawTexts :
          \/ txt = [TxtIdle EXCEPT !.fn = "_clean_subtitle_text", !.text = raw]
          \/ \E max_bytes \in ByteCeilings :
                 txt = [TxtIdle EXCEPT !.fn = "_sanitize_text_for_storage", !.text = raw,
                                       !.arg = max_bytes]

\* the call of _clean_subtitle_text(text)
CleanSubtitleText ==
    /\ txt.fn = "_clean_subtitle_text"
    /\ ~txt.called
    /\ txt' = [txt EXCEPT !.called = TRUE, !.out = _clean_subtitle_text(txt.text)]
    /\ TxtFrame

\* the call of _sanitize_text_for_storage(text, max_bytes)
SanitizeTextForStorage ==
    /\ txt.fn = "_sanitize_text_for_storage"
    /\ ~txt.called
    /\ txt' = [txt EXCEPT !.called = TRUE,
                          !.out = _sanitize_text_for_storage(txt.text, txt.arg)]
    /\ TxtFrame

NextText == CleanSubtitleText \/ SanitizeTextForStorage

SpecText == InitText /\ [][NextText]_vars

\* the lines of a sanitized text read as a raw text again
RawOfText(text) ==
    [i \in 1..Len(SplitLines(text)) |->
        RawLine(SplitLines(text)[i].kind, SplitLines(text)[i].len, SplitLines(text)[i].w)]

\* what the lines of a text say, whatever line of the input they came from
LinesContent(text) ==
    [i \in 1..Len(SplitLines(text)) |->
        [kind |-> SplitLines(text)[i].kind, len |-> SplitLines(text)[i].len,
         w |-> SplitLines(text)[i].w]]

Sanitized(text) ==
    \A i \in 1..Len(SplitLines(text)) :
        /\ SplitLines(text)[i].len > 0
        /\ SplitLines(text)[i].kind \notin {"cue", "number", "timing", "header"}

\* C19: the text the sanitizer returns is sanitized: it has no blank line, no
\* pure-digit line, no line holding -->, no line starting with WEBVTT or NOTE,
\* and sanitizing it again changes nothing.
C19_OutputIsSanitized ==
    txt.called /\ txt.fn \in {"_clean_subtitle_text", "_sanitize_text_for_storage"} =>
        /\ Sanitized(txt.out)
        /\ LinesContent(_clean_subtitle_text(RawOfText(txt.out))) = LinesContent(txt.out)

\* C20: _sanitize_text_for_storage(text, max_bytes) returns at most max_bytes
\* bytes of UTF-8, and what it returns is a prefix of the cleaned text made of
\* whole characters.
C20_CapOnCharacterBoundary ==
    txt.called /\ txt.fn = "_sanitize_text_for_storage" =>
        LET cleaned == Chars(_clean_subtitle_text(txt.text), 1)
            result == Chars(txt.out, 1)
        IN  /\ Len(encode(result, 1)) <= txt.arg
            /\ Len(result) <= Len(cleaned)
            /\ result = SubSeq(cleaned, 1, Len(result))

\* the ceiling fell inside a three-byte character: the character was left out
\* and the result is shorter than the ceiling
C20_Witness ==
    /\ txt.called
    /\ txt.fn = "_sanitize_text_for_storage"
    /\ Len(encode(Chars(_clean_subtitle_text(txt.text), 1), 1)) > txt.arg
    /\ txt.out # <<>>
    /\ Len(encode(Chars(txt.out, 1), 1)) < txt.arg
    /\ Chars(_clean_subtitle_text(txt.text), 1)[Len(Chars(txt.out, 1)) + 1].w = 3

\* ---------------------------------------------------------------------------
\* The pipeline of process_video: get_video_content, then generate_summary on
\* the Document it returned
\* ---------------------------------------------------------------------------

\* _sanitize_text_for_storage with the default max_bytes, as _get_subtitles
\* and _transcribe_audio call it, on texts too long to lay out byte by byte:
\* the slice and the decode are the arithmetic of PrefixBytes
StoredText(raw_content) ==
    IF raw_content = <<>> THEN <<>>
    ELSE LET cleaned == _clean_subtitle_text(raw_content)
         IN  IF cleaned = <<>> THEN <<>>
             ELSE IF StrBytes(cleaned) <= 500000 THEN cleaned
             ELSE PrefixBytes(cleaned, 500000)

\* the texts a video gives: short ones, and ones below, at and above 500 000
\* bytes once cleaned
PipeRawTexts ==
    { <<RawLine("header", 6, 1), RawLine("timing", 29, 1)>>,
      <<RawLine("header", 6, 1), RawLine("timing", 29, 1), RawLine("text", 30, 1)>>,
      <<RawLine("text", 20000, 1)>>,
      <<RawLine("text", 166666, 3), RawLine("text", 1, 1)>>,
      <<RawLine("text", 166666, 3), RawLine("text", 2, 1)>>,
      <<RawLine("text", 166667, 3)>>,
      Repeat(RawLine("text", 100000, 3), 2) }

PipeLlm ==
    [model_name : SumModels, language : {"en"}, llmOk : BOOLEAN, failAt : {0, 1},
     fallbackFails : BOOLEAN, outLen : {100}]

PipeStart(raw, has_subtitles, llm) ==
    [pc |-> "start", raw |-> raw, has_subtitles |-> has_subtitles, llm |-> llm,
     result |-> <<>>]

InitPipe ==
    /\ disk = [n \in SessionNames |-> NoDir]
    /\ current_session = <<>>
    /\ rag = DefaultRag
    /\ clock = 0
    /\ appenders = <<>>
    /\ lastOp = Op("init", "", "n/a")
    /\ failedOn = {}
    /\ faults = 0
    /\ rt = <<>>
    /\ sum = <<>>
    /\ txt = <<>>
    /\ \E raw \in PipeRawTexts, has_subtitles \in BOOLEAN, llm \in PipeLlm :
          acq = PipeStart(raw, has_subtitles, llm)

\* document = self.content_processor.get_video_content(url, allow_transcription)
\* with transcription allowed and working: the subtitle file, or else the
\* transcript of the audio, each stored through _sanitize_text_for_storage
PipeGetVideoContent ==
    /\ acq.pc = "start"
    /\ LET content == IF acq.has_subtitles THEN <<StoredText(acq.raw)>> ELSE <<>>
           next == AfterSubtitles(content, TRUE)
           document ==
               IF next = "return_subtitles"
               THEN [page_content |-> content[1], type |-> "subtitles"]
               ELSE [page_content |-> StoredText(acq.raw), type |-> "transcription"]
       IN  acq' = [acq EXCEPT !.pc = "acquired", !.result = <<document>>]
    /\ UNCHANGED <<disk, current_session, rag, clock, lastOp, failedOn, faults, rt, sum, txt, appenders>>

\* the Document's page_content as generate_summary reads it
PipeInput ==
    [document |-> RawOfText(acq.result[1].page_content),
     model_name |-> acq.llm.model_name, language |-> acq.llm.language,
     llmOk |-> acq.llm.llmOk, failAt |-> acq.llm.failAt,
     fallbackFails |-> acq.llm.fallbackFails, outLen |-> acq.llm.outLen]

\* summary = self.content_processor.generate_summary(document, language=...)
PipeGenerateSummary ==
    /\ acq.pc = "acquired"
    /\ LET out == generate_summary(PipeInput)
       IN  sum' = [called |-> TRUE, in |-> PipeInput, raised |-> out.raised,
                   value |-> out.value, calls |-> out.calls]
    /\ acq' = [acq EXCEPT !.pc = "summarized"]
    /\ UNCHANGED <<disk, current_session, rag, clock, lastOp, failedOn, faults, rt, txt, appenders>>

NextPipe == PipeGetVideoContent \/ PipeGenerateSummary

SpecPipe == InitPipe /\ [][NextPipe]_vars

\* the text extracted for the video, cleaned, is longer than the byte ceiling
PipeOriginalTooLong == StrBytes(_clean_subtitle_text(acq.raw)) > 500000

EndsWith(str, tail) ==
    /\ Len(str) >= Len(tail)
    /\ SubSeq(str, Len(str) - Len(tail) + 1, Len(str)) = tail

\* C21: when the text extracted for a video was longer than the byte ceiling,
\* the summary that get_video_content followed by generate_summary produces
\* for it (no generation call failing) ends with the truncation notice.
C21_PipelineAppendsNotice ==
    ( /\ acq.pc = "summarized"
      /\ PipeOriginalTooLong
      /\ sum.in.llmOk
      /\ \A i \in DOMAIN sum.calls : sum.calls[i].ok ) =>
        EndsWith(sum.value, TruncatedNotice)

\* ---------------------------------------------------------------------------
\* The hierarchical path of generate_summary: chunk summaries and their
\* concatenation (SpecSum)
\* ---------------------------------------------------------------------------

\* the hierarchical path ran to its end: every chunk call and the final
\* synthesis call succeeded
SumSynthesized ==
    /\ sum.called
    /\ sum.in.llmOk
    /\ SumHierarchical
    /\ \A i \in DOMAIN sum.calls : sum.calls[i].ok
    /\ sum.calls # <<>>
    /\ sum.calls[Len(sum.calls)].kind = "final"

\* the chunk summaries the loop appended, and the text the final call received
SumChunkSummaries ==
    SummarizeChunks(_chunk_text_for_summary(SumText, SumCeiling), sum.in).chunk_summaries
SumFinalInput == sum.calls[Len(sum.calls)].input

\* C22: on the hierarchical path every chunk summary that enters the
\* concatenation is at most 1500 characters long, whatever length the
\* generation call returned.
C22_ChunkSummaryCap ==
    SumSynthesized =>
        /\ SumFinalInput = CombinedText(SumChunkSummaries, SumCeiling)
        /\ \A k \in DOMAIN SumChunkSummaries : StrLen(SumChunkSummaries[k]) <= 1500

\* C23: on the hierarchical path, when the concatenated chunk summaries exceed
\* the model ceiling (as len \div 3) or 10 000 characters, the text handed to
\* the final synthesis call is at most 10 000 characters of the concatenation
\* followed by a truncation note; when they exceed neither, it is the
\* concatenation unchanged.
C23_SynthesisInputCap ==
    SumSynthesized =>
        LET joined == JoinSummaries(SumChunkSummaries)
            input == SumFinalInput
        IN  IF StrLen(joined) \div 3 > SumCeiling \/ StrLen(joined) > 10000
            THEN \E note \in {SynthesisTruncated, CombinedTruncated} :
                    /\ EndsWith(input, note)
                    /\ LET body == SubSeq(input, 1, Len(input) - Len(note))
                       IN  /\ StrLen(body) <= 10000
                           /\ body = Prefix(joined, StrLen(body))
            ELSE input = joined

\* chunk summaries longer than the model ceiling allows were cut to 10 000
\* characters and the note was added
C23_Witness ==
    /\ SumSynthesized
    /\ StrLen(JoinSummaries(SumChunkSummaries)) \div 3 > SumCeiling
    /\ EndsWith(SumFinalInput, CombinedTruncated)
    /\ StrLen(SumFinalInput) = 10000 + StrLen(CombinedTruncated)

\* ---------------------------------------------------------------------------
\* _transcribe_audio when the audio download fails (SpecAcq)
\* ---------------------------------------------------------------------------

\* C24: when the audio download exits non-zero, _transcribe_audio raises a
\* failure whose message holds the tool's diagnostic (stderr stripped, or
\* stdout stripped when that is empty, or 'unknown error' when both are) cut
\* to at most 500 characters, and no transcription request is made.
C24_DownloadFailureDiagnostic ==
    (Attempted("download") /\ ~acq.env.download) =>
        LET stderr == Strip(acq.env.stderr)
            stdout == Strip(acq.env.stdout)
            diagnostic == IF stderr # <<>> THEN stderr
                          ELSE IF stdout # <<>> THEN stdout ELSE UnknownError
            details == SubSeq(acq.message, Len(AudioDownloadFailed) + 1, Len(acq.message))
        IN  /\ acq.pc = "done"
            /\ acq.raised = "download_failed"
            /\ acq.result = <<>>
            /\ ~Attempted("transcribe")
            /\ SubSeq(acq.message, 1, Len(AudioDownloadFailed)) = AudioDownloadFailed
            /\ StrLen(details) <= 500
            /\ details = Prefix(diagnostic, StrLen(details))
            /\ StrLen(details) = Min(500, StrLen(diagnostic))

\* the download failed with a long stderr: the message holds its first 500
\* characters
C24_Witness ==
    /\ acq.raised = "download_failed"
    /\ StrLen(Strip(acq.env.stderr)) = 700
    /\ acq.message = AudioDownloadFailed \o Prefix(Strip(acq.env.stderr), 500)

\* ---------------------------------------------------------------------------
\* _get_subtitles on the files yt-dlp wrote, and get_video_content on its result
\* ---------------------------------------------------------------------------

MaxFiles == 2

\* what a written file holds: cues with text, a header and nothing else, or
\* bytes that are not UTF-8
SubtitleRaw(lang, holds) ==
    CASE holds = "text" ->
           <<RawLine("header", 6, 1), RawLine("cue", 1, 1), RawLine("timing", 29, 1),
             RawLine("text", 30, IF lang = "en" THEN 1 ELSE 3)>>
      [] OTHER -> <<RawLine("header", 6, 1), RawLine("blank", 0, 1)>>

WrittenFiles ==
    [ext : {"vtt", "srt", "json"}, lang : {"zh-Hans", "en"},
     holds : {"text", "header_only", "not_utf8"}]

\* os.listdir(tmpdir), in the order the system lists it
Listings == SeqsUpTo(WrittenFiles, MaxFiles)

\* _get_subtitles once yt-dlp has run: the first listed .vtt/.srt file is read
\* and sanitized; None when there is no such file or reading it raises
GetSubtitlesFrom(files) ==
    LET subtitle_files == SelectSeq(files, LAMBDA f : f.ext \in {"vtt", "srt"})
    IN  IF subtitle_files = <<>> THEN <<>>
        ELSE IF subtitle_files[1].holds = "not_utf8" THEN <<>>
        ELSE <<StoredText(SubtitleRaw(subtitle_files[1].lang, subtitle_files[1].holds))>>

SpeechRaw == <<RawLine("text", 50, 1)>>

InitSubs ==
    /\ disk = [n \in SessionNames |-> NoDir]
    /\ current_session = <<>>
    /\ rag = DefaultRag
    /\ clock = 0
    /\ appenders = <<>>
    /\ lastOp = Op("init", "", "n/a")
    /\ failedOn = {}
    /\ faults = 0
    /\ rt = <<>>
    /\ sum = <<>>
    /\ txt = <<>>
    /\ \E files \in Listings, allow_transcription \in BOOLEAN, transcribes \in BOOLEAN :
          acq = [pc |-> "start", files |-> files, allow_transcription |-> allow_transcription,
                 transcribes |-> transcribes, result |-> <<>>, raised |-> "no"]

\* get_video_content(url, allow_transcription) on a video for which yt-dlp
\* wrote acq.files
SubsGetVideoContent ==
    /\ acq.pc = "start"
    /\ LET content == GetSubtitlesFrom(acq.files)
           next == AfterSubtitles(content, acq.allow_transcription)
       IN  acq' =
             CASE next = "return_subtitles" ->
                    [acq EXCEPT !.pc = "done",
                                !.result = <<[page_content |-> content[1],
                                              type |-> "subtitles"]>>]
               [] next = "raise_not_allowed" ->
                    [acq EXCEPT !.pc = "done", !.raised = "not_allowed"]
               [] OTHER ->
                    IF acq.transcribes
                    THEN [acq EXCEPT !.pc = "done",
                                     !.result = <<[page_content |-> StoredText(SpeechRaw),
                                                   type |-> "transcription"]>>]
                    ELSE [acq EXCEPT !.pc = "done", !.raised = "transcription_failed"]
    /\ UNCHANGED <<disk, current_session, rag, clock, lastOp, failedOn, faults, rt, sum, txt, appenders>>

NextSubs == SubsGetVideoContent

SpecSubs == InitSubs /\ [][NextSubs]_vars

ReturnedSubtitleFiles == SelectSeq(acq.files, LAMBDA f : f.ext \in {"vtt", "srt"})

\* C25: whenever subtitle retrieval returned at least one .vtt/.srt file,
\* get_video_content returns the sanitized text of one of the returned files
\* with type 'subtitles': it neither raises nor falls back to transcription.
C25_ReturnedSubtitlesAreUsed ==
    (acq.pc = "done" /\ ReturnedSubtitleFiles # <<>>) =>
        /\ acq.raised = "no"
        /\ acq.result # <<>>
        /\ acq.result[1].type = "subtitles"
        /\ \E i \in DOMAIN ReturnedSubtitleFiles :
              /\ ReturnedSubtitleFiles[i].holds # "not_utf8"
              /\ acq.result[1].page_content =
                     StoredText(SubtitleRaw(ReturnedSubtitleFiles[i].lang,
                                            ReturnedSubtitleFiles[i].holds))

\* ---------------------------------------------------------------------------
\* list_sessions and load_session (SpecOps)
\* ---------------------------------------------------------------------------

\* C26: list_sessions returns the sessions newest first: of every two
\* consecutive entries the first has a created_at greater than or equal to the
\* second's, and the entries are the sessions holding a metadata.json, with the
\* created_at persisted for each.
C26_ListNewestFirst ==
    (lastOp.op = "list_sessions" /\ ~lastOp.failed) =>
        /\ \A i \in 1..(Len(lastOp.ret) - 1) :
               lastOp.ret[i].created_at >= lastOp.ret[i + 1].created_at
        /\ {lastOp.ret[i].name : i \in DOMAIN lastOp.ret}
               = {n \in SessionNames : disk[n].exists /\ disk[n].meta # "absent"}
        /\ Len(lastOp.ret) = Cardinality({lastOp.ret[i].name : i \in DOMAIN lastOp.ret})
        /\ \A i \in DOMAIN lastOp.ret :
               lastOp.ret[i].created_at = disk[lastOp.ret[i].name].metadata.created_at

\* two sessions saved at different times were listed, the later one first
C26_Witness ==
    /\ lastOp.op = "list_sessions"
    /\ ~lastOp.failed
    /\ Len(lastOp.ret) = 2
    /\ lastOp.ret[1].created_at > lastOp.ret[2].created_at

\* what two results of load_session have to agree on: everything but the
\* retriever handle
SameButRetriever(r1, r2) ==
    /\ (r1 = <<>>) <=> (r2 = <<>>)
    /\ r1 # <<>> =>
         /\ r1[1].metadata = r2[1].metadata
         /\ r1[1].document = r2[1].document
         /\ r1[1].documents = r2[1].documents
         /\ r1[1].summary = r2[1].summary
         /\ r1[1].summaries = r2[1].summaries
         /\ r1[1].video_urls = r2[1].video_urls
         /\ r1[1].chat_history = r2[1].chat_history

\* C27: load_session is idempotent: a load_session that directly follows a
\* load_session of the same session returns the same metadata, documents,
\* summaries, video_urls and chat_history, and no load_session changes
\* anything on disk.
C27_LoadIdempotent ==
    [][ lastOp'.op = "load_session" =>
          /\ disk' = disk
          /\ (lastOp.op = "load_session" /\ lastOp.name = lastOp'.name) =>
                 SameButRetriever(lastOp.ret, lastOp'.ret) ]_vars

\* ---------------------------------------------------------------------------
\* _estimate_tokens on a text and on the text with more appended
\* ---------------------------------------------------------------------------

MaxTextLen == 12

\* texts of one-byte and of three-byte characters, the empty text included
EstTexts(id) ==
    {<<>>} \cup {<<Seg("text", id, 0, len, w)>> : len \in 1..MaxTextLen, w \in {1, 3}}

InitEst ==
    /\ disk = [n \in SessionNames |-> NoDir]
    /\ current_session = <<>>
    /\ rag = DefaultRag
    /\ clock = 0
    /\ appenders = <<>>
    /\ lastOp = Op("init", "", "n/a")
    /\ failedOn = {}
    /\ faults = 0
    /\ rt = <<>>
    /\ sum = <<>>
    /\ acq = <<>>
    /\ \E a \in EstTexts(1), b \in EstTexts(2) :
          txt = [TxtIdle EXCEPT !.fn = "_estimate_tokens", !.text = <<a, b>>]

\* the calls _estimate_tokens(a) and _estimate_tokens(a + b)
EstimateTokens ==
    /\ txt.fn = "_estimate_tokens"
    /\ ~txt.called
    /\ txt' = [txt EXCEPT !.called = TRUE,
                          !.out = <<_estimate_tokens(txt.text[1]),
                                    _estimate_tokens(txt.text[1] \o txt.text[2])>>]
    /\ TxtFrame

NextEst == EstimateTokens

SpecEst == InitEst /\ [][NextEst]_vars

\* C28: the token estimate is monotonic in the text length: for all texts a
\* and b, _estimate_tokens(a + b) >= _estimate_tokens(a).
C28_EstimateMonotonic ==
    (txt.fn = "_estimate_tokens" /\ txt.called) => txt.out[2] >= txt.out[1]

\* one appended character took the estimate from 3 to 4
C28_Witness ==
    /\ txt.fn = "_estimate_tokens"
    /\ txt.called
    /\ StrLen(txt.text[2]) = 1
    /\ txt.out = <<3, 4>>

\* ---------------------------------------------------------------------------
\* Two callers appending to one session at the same time: append_to_session
\* step by step, no lock taken
\* ---------------------------------------------------------------------------

Appenders == {1, 2}
SharedName == "a"

\* the session both callers append to, as save_session left it
SharedSession(url, r) ==
    save_session(NoDir, get_video_content(url), VideoSummary(url), ModelConfig(r), SharedName,
                 <<>>, r.language, <<get_video_content(url)>>,
                 <<SummaryRecord(url, VideoSummary(url))>>, 1, "none").dir

AppenderIdle(url, index_fails) ==
    [pc |-> "idle", url |-> url, index_fails |-> index_fails, session |-> <<>>,
     metadata |-> <<>>, ret |-> "n/a"]

InitConc ==
    /\ \E r \in RagConfigs, url \in VideoUrls :
          /\ rag = r
          /\ disk = [n \in SessionNames |->
                        IF n = SharedName THEN SharedSession(url, r) ELSE NoDir]
    /\ current_session = <<>>
    /\ clock = 1
    /\ lastOp = Op("init", "", "n/a")
    /\ failedOn = {}
    /\ faults = 0
    /\ rt = <<>>
    /\ sum = <<>>
    /\ acq = <<>>
    /\ txt = <<>>
    /\ \E urls \in [Appenders -> VideoUrls], fails \in [Appenders -> BOOLEAN] :
          appenders = [p \in Appenders |-> AppenderIdle(urls[p], fails[p])]

ConcFrame == UNCHANGED <<current_session, rag, clock, lastOp, failedOn, faults, rt, sum, acq, txt>>

\* vector_store.add_documents(new_chunks): the chunks are added to what the
\* store holds at that moment
AddDocuments_Replace(d, new_chunks) == [d EXCEPT !.chroma = TRUE, !.index = new_chunks]
AddDocuments(d, new_chunks) == [d EXCEPT !.chroma = TRUE, !.index = @ \o new_chunks]

\* the caller loads the session it is going to extend
AppLoad(p) ==
    /\ appenders[p].pc = "idle"
    /\ LET loaded == load_session(disk[SharedName], SharedName)
       IN  /\ disk' = [disk EXCEPT ![SharedName] = loaded.dir]
           /\ appenders' =
                 IF loaded.ret = <<>>
                 THEN [appenders EXCEPT ![p].pc = "done", ![p].ret = FALSE]
                 ELSE [appenders EXCEPT ![p].pc = "loaded", ![p].session = loaded.ret[1]]
    /\ ConcFrame

\* append_to_session: metadata.json is looked for and read
AppRead(p) ==
    /\ appenders[p].pc = "loaded"
    /\ LET d == disk[SharedName]
       IN  appenders' =
             IF ~d.exists \/ d.meta # "ok"
             THEN [appenders EXCEPT ![p].pc = "done", ![p].ret = FALSE]
             ELSE [appenders EXCEPT ![p].pc = "read", ![p].metadata = d.metadata]
    /\ UNCHANGED disk
    /\ ConcFrame

\* the documents list the caller passes: those of the session it loaded and
\* its new document
AppenderDocuments(a) == Append(a.session.documents, get_video_content(a.url))

\* append_to_session: the fields are set on the metadata read and the file is
\* written
AppWrite(p) ==
    /\ appenders[p].pc = "read"
    /\ LET a == appenders[p]
           documents == AppenderDocuments(a)
           video_urls == SourcesOf(documents)
           metadata ==
               [a.metadata EXCEPT
                  !.documents = DocumentRecords(documents),
                  !.document_content = JoinContents(documents),
                  !.content_type = "combined",
                  !.summary = IF a.session.summary # <<>>
                              THEN a.session.summary \o SummarySeparator \o VideoSummary(a.url)
                              ELSE VideoSummary(a.url),
                  !.summaries = Append(a.session.summaries,
                                       SummaryRecord(a.url, VideoSummary(a.url))),
                  !.chat_history = a.session.chat_history,
                  !.language = rag.language,
                  !.video_urls = video_urls,
                  !.video_url = IF video_urls # <<>> THEN video_urls[1] ELSE @]
       IN  /\ disk' = [disk EXCEPT ![SharedName].metadata = metadata]
           /\ appenders' = [appenders EXCEPT ![p].pc = "written", ![p].metadata = metadata]
    /\ ConcFrame

\* append_to_session: the new document is split and its chunks are added to
\* the persisted index; a failure there is reported as False
AppIndex(p) ==
    /\ appenders[p].pc = "written"
    /\ LET a == appenders[p]
           new_chunks == split_documents(<<get_video_content(a.url)>>, ModelConfig(rag))
       IN  IF new_chunks # <<>> /\ a.index_fails
           THEN /\ appenders' = [appenders EXCEPT ![p].pc = "done", ![p].ret = FALSE]
                /\ UNCHANGED disk
           ELSE /\ appenders' = [appenders EXCEPT ![p].pc = "done", ![p].ret = TRUE]
                /\ disk' = [disk EXCEPT ![SharedName] =
                                IF new_chunks = <<>> THEN @ ELSE AddDocuments(@, new_chunks)]
    /\ ConcFrame

NextConc == \E p \in Appenders : AppLoad(p) \/ AppRead(p) \/ AppWrite(p) \/ AppIndex(p)

SpecConc == InitConc /\ [][NextConc]_vars

\* both appenders returned True
BothAppended == \A p \in Appenders : appenders[p].pc = "done" /\ appenders[p].ret = TRUE

\* the chunks of an appender's new document
NewChunks(p) == split_documents(<<get_video_content(appenders[p].url)>>, ModelConfig(rag))

\* the index the session had before either append: the chunks of its one document
BaseIndex ==
    split_documents(<<DocumentsOfRecords(disk[SharedName].metadata.documents)[1]>>,
                    ModelConfig(rag))

\* C29: append_to_session takes no lock: when two appenders of one session
\* have both returned True the index holds the chunks of both new documents
\* after those of the session, while metadata.json holds the list of whichever
\* wrote last: the session's documents and both new ones, or only one of the
\* new ones.
C29_UnlockedAppendersDiverge ==
    BothAppended =>
        /\ disk[SharedName].index \in {BaseIndex \o NewChunks(1) \o NewChunks(2),
                                        BaseIndex \o NewChunks(2) \o NewChunks(1)}
        /\ \E p \in Appenders :
              disk[SharedName].metadata.documents =
                  DocumentRecords(AppenderDocuments(appenders[p]))
        /\ Len(disk[SharedName].metadata.documents) \in {2, 3}

\* two appenders, each adding a different document, have both returned True:
\* metadata.json lists one of the two new documents and the index holds the
\* chunks of both
C29_Witness ==
    /\ BothAppended
    /\ appenders[1].url # appenders[2].url
    /\ Len(disk[SharedName].metadata.documents) = 2
    /\ disk[SharedName].metadata.documents[2].metadata.source = appenders[2].url
    /\ disk[SharedName].index = BaseIndex \o NewChunks(1) \o NewChunks(2)
    /\ NewChunks(1) # <<>>
    /\ NewChunks(2) # <<>>

\* ---------------------------------------------------------------------------
\* The size of the chunks of _chunk_text_for_summary (SpecChunk)
\* ---------------------------------------------------------------------------

\* max(1000, int(ceiling * 0.75))
ChunkBudget == Max(1000, (txt.arg * 3) \div 4)

\* the line of the text a piece of a chunk comes from
LineOfPiece(g) == CHOOSE l \in {SplitLines(txt.text)[k] : k \in DOMAIN SplitLines(txt.text)} : l.id = g.id

ChunkedHierarchically ==
    /\ txt.fn = "_chunk_text_for_summary"
    /\ txt.called
    /\ _estimate_tokens(txt.text) > txt.arg

\* C30: on the hierarchical path every chunk of _chunk_text_for_summary is at
\* most max(1000, int(ceiling * 0.75)) characters long; a line longer than
\* that budget is cut into consecutive chunks of exactly the budget, the last
\* one possibly shorter; every other line is whole in its chunk, and a chunk
\* of whole lines is closed only when the next line, with its line break,
\* would take it to the budget.
C30_ChunkBudget ==
    ChunkedHierarchically =>
        /\ \A i \in DOMAIN txt.out : StrLen(txt.out[i]) <= ChunkBudget
        /\ \A i \in DOMAIN txt.out : \A j \in DOMAIN txt.out[i] :
              LET g == txt.out[i][j]
              IN  g.tag = "line" =>
                    /\ g.off % ChunkBudget = 0
                    /\ g.len = Min(ChunkBudget, LineOfPiece(g).len - g.off)
                    /\ LineOfPiece(g).len > ChunkBudget => txt.out[i] = <<g>>
        /\ \A i \in 1..(Len(txt.out) - 1) :
              LineOfPiece(txt.out[i][1]).len <= ChunkBudget =>
                  StrLen(txt.out[i]) + 1 + LineOfPiece(txt.out[i + 1][1]).len >= ChunkBudget

\* after a chunk of two whole lines, a line of 2500 characters was cut into
\* chunks of 1000, 1000 and 500 characters
C30_Witness ==
    /\ ChunkedHierarchically
    /\ ChunkBudget = 1000
    /\ Len(txt.out) = 4
    /\ Len(txt.out[1]) = 3
    /\ txt.out[2][1].len = 1000
    /\ txt.out[3][1].len = 1000
    /\ txt.out[4] = <<[txt.out[2][1] EXCEPT !.off = 2000, !.len = 500]>>

\* ---------------------------------------------------------------------------
\* One session shared by the chat interface and the command line (SpecShared)
\* ---------------------------------------------------------------------------

\* main.py --url URL --chunk-size N --chunk-overlap M, run in a process of its
\* own: process_video saves the session under the video id and reloads it; the
\* questions that follow are answered without writing to the session
CliProcessVideo(url, cfg) ==
    /\ Tick
    /\ LET video_id == extract_video_id(url)
           document == get_video_content(url)
           summary == VideoSummary(url)
           saved == save_session(disk[video_id], document, summary, ModelConfig(cfg),
                                 video_id, <<>>, cfg.language, <<document>>,
                                 <<SummaryRecord(url, summary)>>, clock + 1, "none")
           loaded == rag_load_session(saved.dir, video_id, cfg)
       IN  /\ disk' = [disk EXCEPT ![video_id] = loaded.dir]
           /\ lastOp' = Op("cli_process_video", video_id, "ok")
    /\ UNCHANGED <<current_session, rag, failedOn, faults, rt, sum, acq, txt, appenders>>

\* the chat interface (its YouTubeRAG is built with the default settings) and
\* the command line working on the same rag_sessions directory
NextShared ==
    \/ \E url \in VideoUrls : ProcessVideo(url, DefaultRag, TRUE, "none")
    \/ \E name \in SessionNames : LoadSession(name)
    \/ \E url \in VideoUrls : AddVideo(url, TRUE, "none")
    \/ Reset
    \/ \E url \in VideoUrls, cfg \in RagConfigs : CliProcessVideo(url, cfg)

SpecShared == Init /\ [][NextShared]_vars

\* C31: the chunks that a successful append adds to the index for the new
\* document are those of the chunk_size and chunk_overlap recorded in the
\* session's metadata.json, and the append leaves the recorded chunk_size,
\* chunk_overlap, model_name and created_at as they were.
C31_AppendFollowsRecordedPolicy ==
    [][ (lastOp'.op = "add_video" /\ lastOp'.ret = "ok") =>
          LET old == disk[lastOp'.name]
              new == disk'[lastOp'.name]
              listed == DocumentsOfRecords(new.metadata.documents)
              new_document == listed[Len(listed)]
          IN  /\ new.index = old.index \o split_documents(<<new_document>>, RecordedConfig(old))
              /\ RecordedConfig(new) = RecordedConfig(old)
              /\ new.metadata.created_at = old.metadata.created_at ]_vars

\* ---------------------------------------------------------------------------
\* Session names as paths: storage_dir / persist_name (SpecPaths)
\* ---------------------------------------------------------------------------

\* names that are not the name of a directory under the sessions root
PathIds == {"", ".", ".."}

\* what lies next to the sessions root in the working directory
OutsideFiles == {"main.py", ".env"}

\* Path("rag_sessions") / persist_name: the root itself for "" and ".", the
\* directory that holds the root for "..", a directory under the root otherwise
ResolvePath(persist_name) ==
    IF persist_name \in {"", "."} THEN "root"
    ELSE IF persist_name = ".." THEN "parent"
    ELSE "session"

\* The working directory: the session directories under the root, what
\* save_session wrote into the root directory itself, the files outside it.
Filesystem(sessions, root, outside) == [sessions |-> sessions, root |-> root, outside |-> outside]

\* save_session over the working directory: rmtree of session_path when it
\* exists, mkdir, then metadata.json and chroma_db written below session_path
save_session_at(fs, document, summary, model_config, persist_name, language, now) ==
    LET saved == save_session(NoDir, document, summary, model_config, persist_name,
                              <<>>, language, <<document>>,
                              <<SummaryRecord(document.metadata.source, summary)>>,
                              now, "none")
        emptied == [n \in DOMAIN fs.sessions |-> NoDir]
    IN  CASE ResolvePath(persist_name) = "root" ->
                 [dir |-> Filesystem(emptied, saved.dir, fs.outside), ret |-> saved.ret]
          [] ResolvePath(persist_name) = "parent" ->
                 [dir |-> Filesystem(emptied, NoDir, {"metadata.json", "chroma_db"}),
                  ret |-> saved.ret]
          [] OTHER ->
                 [dir |-> Filesystem([fs.sessions EXCEPT ![persist_name] = saved.dir],
                                     fs.root, fs.outside),
                  ret |-> saved.ret]

\* delete_session over the working directory: rmtree of session_path when it exists
delete_session_at(fs, persist_name) ==
    LET emptied == [n \in DOMAIN fs.sessions |-> NoDir]
    IN  CASE ResolvePath(persist_name) = "root" ->
                 [dir |-> Filesystem(emptied, NoDir, fs.outside), ret |-> TRUE]
          [] ResolvePath(persist_name) = "parent" ->
                 [dir |-> Filesystem(emptied, NoDir, {}), ret |-> TRUE]
          [] OTHER ->
                 IF fs.sessions[persist_name].exists
                 THEN [dir |-> Filesystem([fs.sessions EXCEPT ![persist_name] = NoDir],
                                          fs.root, fs.outside),
                       ret |-> TRUE]
                 ELSE [dir |-> fs, ret |-> FALSE]

WorkingDirectory == Filesystem(disk, rt.root, rt.outside)

InitPaths ==
    /\ disk = [n \in SessionNames |-> NoDir]
    /\ current_session = <<>>
    /\ rag = DefaultRag
    /\ clock = 0
    /\ appenders = <<>>
    /\ lastOp = Op("init", "", "n/a")
    /\ failedOn = {}
    /\ faults = 0
    /\ rt = [root |-> [NoDir EXCEPT !.exists = TRUE], outside |-> OutsideFiles]
    /\ sum = <<>>
    /\ acq = <<>>
    /\ txt = <<>>

\* save_session(document, summary, model_config, name, ...)
PathSave(name, url) ==
    /\ OpsTick
    /\ LET result == save_session_at(WorkingDirectory, get_video_content(url),
                                     VideoSummary(url), ModelConfig(rag), name,
                                     rag.language, clock + 1)
       IN  /\ disk' = result.dir.sessions
           /\ rt' = [root |-> result.dir.root, outside |-> result.dir.outside]
           /\ lastOp' = Op("save_session", name, IF result.ret = <<>> THEN "fail" ELSE "ok")
    /\ UNCHANGED <<current_session, rag, failedOn, faults, sum, acq, txt, appenders>>

\* delete_session(name)
PathDelete(name) ==
    /\ OpsTick
    /\ LET result == delete_session_at(WorkingDirectory, name)
       IN  /\ disk' = result.dir.sessions
           /\ rt' = [root |-> result.dir.root, outside |-> result.dir.outside]
           /\ lastOp' = Op("delete_session", name, IF result.ret THEN "ok" ELSE "fail")
    /\ UNCHANGED <<current_session, rag, failedOn, faults, sum, acq, txt, appenders>>

NextPaths ==
    \/ \E name \in SessionNames \cup PathIds, url \in VideoUrls : PathSave(name, url)
    \/ \E name \in SessionNames \cup PathIds : PathDelete(name)

SpecPaths == InitPaths /\ [][NextPaths]_vars

\* C32: save_session and delete_session on a name change only the directory
\* of that session: every other session directory, and every file outside
\* the sessions root, is as it was, whatever the name.
C32_OnlyTheNamedSession ==
    [][ lastOp'.op \in {"save_session", "delete_session"} =>
          /\ \A n \in SessionNames : n # lastOp'.name => disk'[n] = disk[n]
          /\ rt'.outside = rt.outside ]_vars

\* ---------------------------------------------------------------------------
\* Session ids of ingested videos (SpecIds)
\* ---------------------------------------------------------------------------

\* the URL forms of validate_youtube_url, and one it rejects
UrlForms == {"watch", "youtu.be", "embed", "v", "vimeo"}

IdUrls == {[form |-> f, id |-> i] : f \in UrlForms, i \in {"a", "b"}}

\* re.match of the four patterns: watch?v=, youtu.be/, /embed/, /v/
validate_youtube_url(url) == url.form \in {"watch", "youtu.be", "embed", "v"}

InitIds ==
    /\ disk = [n \in {"a", "b", "unknown"} |-> NoDir]
    /\ current_session = <<>>
    /\ rag = DefaultRag
    /\ clock = 0
    /\ appenders = <<>>
    /\ lastOp = Op("init", "", "n/a")
    /\ failedOn = {}
    /\ faults = 0
    /\ rt = <<>>
    /\ sum = <<>>
    /\ acq = <<>>
    /\ txt = <<>>

\* a video URL entered in state 'new_video': validated, then process_video,
\* whose session is saved under extract_video_id(url); rt lists the videos
\* ingested so far with the session each one was given
IdsNewVideo(url) ==
    /\ current_session = <<>>
    /\ Tick
    /\ IF ~validate_youtube_url(url)
       THEN /\ lastOp' = Op("new_video", "", "invalid")
            /\ UNCHANGED <<disk, current_session, rag, rt>>
       ELSE LET video_id == extract_video_id(url)
                document == get_video_content(url)
                summary == VideoSummary(url)
                summaries == <<SummaryRecord(url, summary)>>
                saved == save_session(disk[video_id], document, summary, ModelConfig(rag),
                                      video_id, <<>>, rag.language, <<document>>,
                                      summaries, clock + 1, "none")
                loaded == rag_load_session(saved.dir, video_id, rag)
            IN  /\ disk' = [disk EXCEPT ![video_id] = loaded.dir]
                /\ rag' = loaded.rag
                /\ current_session' =
                      <<[loaded.ret[1] EXCEPT
                            !.chat_history = <<>>,
                            !.language = rag.language,
                            !.summary = summary,
                            !.summaries = summaries,
                            !.documents = <<document>>,
                            !.document = document,
                            !.video_urls = <<url>>]>>
                /\ rt' = Append(rt, [url |-> url, session_name |-> saved.ret[1]])
                /\ lastOp' = Op("process_video", video_id, "ok")
    /\ UNCHANGED <<failedOn, faults, sum, acq, txt, appenders>>

NextIds ==
    \/ \E url \in IdUrls : IdsNewVideo(url)
    \/ Reset

SpecIds == InitIds /\ [][NextIds]_vars

\* C33: two different videos ingested by process_video never get the same
\* session id, whichever accepted URL form each was given in.
C33_DistinctVideosDistinctSessions ==
    \A i, j \in DOMAIN rt :
        rt[i].url.id # rt[j].url.id => rt[i].session_name # rt[j].session_name

\* ---------------------------------------------------------------------------
\* A failed save_session over an existing session (SpecOps)
\* ---------------------------------------------------------------------------

\* C34: when save_session returns None for a name under which a complete
\* session existed, that session is still there afterwards and loads with
\* the documents, summaries and chat history it had.
C34_FailedSaveKeepsPrevious ==
    [][ ( /\ lastOp'.op = "save_session"
          /\ clock' # clock
          /\ lastOp'.ret = <<>>
          /\ Complete(disk[lastOp'.name]) )
        => LET n == lastOp'.name
               before == load_session(disk[n], n).ret
               after == load_session(disk'[n], n).ret
           IN  /\ after # <<>>
               /\ after[1].documents = before[1].documents
               /\ after[1].summaries = before[1].summaries
               /\ after[1].chat_history = before[1].chat_history ]_vars

\* ---------------------------------------------------------------------------
\* A question answered while a video is being added: update_chat_history
\* step by step beside append_to_session, no lock taken (SpecChat)
\* ---------------------------------------------------------------------------

\* the caller answering a question: the turn it is going to persist
AskerIdle == [pc |-> "idle", metadata |-> <<>>, chat_history |-> <<<<"question", "answer">>>>, ret |-> "n/a"]

InitChat ==
    /\ \E r \in RagConfigs, url \in VideoUrls :
          /\ rag = r
          /\ disk = [n \in SessionNames |->
                        IF n = SharedName THEN SharedSession(url, r) ELSE NoDir]
    /\ current_session = <<>>
    /\ clock = 1
    /\ lastOp = Op("init", "", "n/a")
    /\ failedOn = {}
    /\ faults = 0
    /\ rt = AskerIdle
    /\ sum = <<>>
    /\ acq = <<>>
    /\ txt = <<>>
    /\ \E url \in VideoUrls, fails \in BOOLEAN :
          appenders = [p \in {1} |-> AppenderIdle(url, fails)]

ChatFrame == UNCHANGED <<current_session, rag, clock, lastOp, failedOn, faults, sum, acq, txt, appenders>>

\* update_chat_history: metadata.json is looked for and read
UpdRead ==
    /\ rt.pc = "idle"
    /\ LET d == disk[SharedName]
       IN  rt' = IF ~d.exists \/ d.meta # "ok"
                 THEN [rt EXCEPT !.pc = "done", !.ret = FALSE]
                 ELSE [rt EXCEPT !.pc = "read", !.metadata = d.metadata]
    /\ UNCHANGED disk
    /\ ChatFrame

\* update_chat_history: chat_history is set on the metadata read and the
\* file is written
UpdWrite ==
    /\ rt.pc = "read"
    /\ disk' = [disk EXCEPT ![SharedName].metadata =
                   [rt.metadata EXCEPT !.chat_history = rt.chat_history]]
    /\ rt' = [rt EXCEPT !.pc = "done", !.ret = TRUE]
    /\ ChatFrame

NextChat ==
    \/ AppLoad(1)
    \/ AppRead(1)
    \/ AppWrite(1)
    \/ AppIndex(1)
    \/ UpdRead
    \/ UpdWrite

SpecChat == InitChat /\ [][NextChat]_vars

\* C35: when update_chat_history and a successful append_to_session on the
\* same session have both completed, metadata.json lists every document the
\* append wrote.
C35_UpdateKeepsAppendedDocument ==
    (appenders[1].pc = "done" /\ appenders[1].ret = TRUE /\ rt.pc = "done")
    => disk[SharedName].metadata.documents = DocumentRecords(AppenderDocuments(appenders[1]))

\* ---------------------------------------------------------------------------
\* list_sessions beside an unreadable session (SpecOps)
\* ---------------------------------------------------------------------------

\* C36: list_sessions returns an entry for every session directory whose
\* metadata.json is readable, whatever the state of the other directories.
C36_ListShowsEveryReadableSession ==
    lastOp.op = "list_sessions" =>
        \A n \in SessionNames :
            (disk[n].exists /\ disk[n].meta = "ok")
            => \E i \in DOMAIN lastOp.ret : lastOp.ret[i].name = n

\* ---------------------------------------------------------------------------
\* scripts/playlist_ingest.py: a playlist ingested into one session
\* (SpecPlaylist)
\* ---------------------------------------------------------------------------

MaxEntries == 3    \* videos of the playlist

\* YouTubeRAG.process_video over the sessions root ds: the session (<<>> when
\* the call raised), the sessions root and the engine settings afterwards
process_video(ds, r, url, contentOk, fault, now) ==
    LET video_id == extract_video_id(url)
        document == get_video_content(url)
        summary == VideoSummary(url)
        summaries == <<SummaryRecord(url, summary)>>
        saved == save_session(ds[video_id], document, summary, ModelConfig(r), video_id,
                              <<>>, r.language, <<document>>, summaries, now, fault)
        loaded == rag_load_session(saved.dir, video_id, r)
    IN  IF ~contentOk
        THEN [dir |-> ds, ret |-> <<>>, rag |-> r]
        ELSE IF saved.ret = <<>>
        THEN [dir |-> [ds EXCEPT ![video_id] = saved.dir], ret |-> <<>>, rag |-> r]
        ELSE IF loaded.ret = <<>>
        THEN [dir |-> [ds EXCEPT ![video_id] = loaded.dir], ret |-> <<>>, rag |-> r]
        ELSE [dir |-> [ds EXCEPT ![video_id] = loaded.dir],
              ret |-> <<[loaded.ret[1] EXCEPT
                           !.chat_history = <<>>,
                           !.language = r.language,
                           !.summary = summary,
                           !.summaries = summaries,
                           !.documents = <<document>>,
                           !.document = document,
                           !.video_urls = <<url>>]>>,
              rag |-> loaded.rag]

\* YouTubeRAG.add_video_to_session over the sessions root ds: result["session"]
\* (<<>> when the call raised), the sessions root and the engine settings
add_video_to_session(ds, r, session_data, url, contentOk, fault) ==
    LET document == get_video_content(url)
        summary == VideoSummary(url)
        documents == Append(session_data.documents, document)
        summaries == Append(session_data.summaries, SummaryRecord(url, summary))
        combined_summary ==
            IF session_data.summary # <<>>
            THEN session_data.summary \o SummarySeparator \o summary
            ELSE summary
        primary_source ==
            IF session_data.video_urls # <<>> THEN session_data.video_urls[1] ELSE url
        combined_document ==
            [page_content |-> JoinContents(documents),
             metadata |-> [source |-> primary_source, type |-> "combined"]]
        persist_name == session_data.session_name
        chat_history == session_data.chat_history
        appended == append_to_session(ds[persist_name], documents, <<document>>, summaries,
                                      combined_summary, combined_document, chat_history,
                                      r.language, ModelConfig(r), fault)
        refreshed == rag_load_session(appended.dir, persist_name, r)
    IN  IF ~contentOk
        THEN [dir |-> ds, ret |-> <<>>, rag |-> r]
        ELSE IF ~appended.ret
        THEN [dir |-> [ds EXCEPT ![persist_name] = appended.dir], ret |-> <<>>, rag |-> r]
        ELSE IF refreshed.ret = <<>>
        THEN [dir |-> [ds EXCEPT ![persist_name] = refreshed.dir], ret |-> <<>>, rag |-> r]
        ELSE [dir |-> [ds EXCEPT ![persist_name] = refreshed.dir],
              ret |-> <<[refreshed.ret[1] EXCEPT
                           !.chat_history = chat_history,
                           !.summary = combined_summary,
                           !.summaries = summaries,
                           !.documents = documents,
                           !.document = combined_document,
                           !.video_urls =
                               IF \E i \in DOMAIN @ : @[i] = url
                               THEN @ ELSE Append(@, url)]>>,
              rag |-> refreshed.rag]

\* the playlists fetch_playlist_entries may return: one to MaxEntries videos
Playlists == UNION {[1..n -> VideoUrls] : n \in 1..MaxEntries}

\* --session-name: absent, a saved session, a name never saved
SessionNameArgs == {<<>>, <<SharedName>>, <<"unknown">>}

\* main() before the playlist is walked: the arguments, the session on disk
\* left by an earlier ingestion, the locals of main
InitPlaylist ==
    /\ \E url \in VideoUrls :
          disk = [n \in SessionNames |->
                     IF n = SharedName THEN SharedSession(url, DefaultRag) ELSE NoDir]
    /\ rag \in RagConfigs
    /\ current_session = <<>>
    /\ clock = 1
    /\ appenders = <<>>
    /\ lastOp = Op("init", "", "n/a")
    /\ failedOn = {}
    /\ faults = 0
    /\ \E entries \in Playlists, session_name \in SessionNameArgs, skip_existing \in BOOLEAN :
          rt = [pc |-> "start", entries |-> entries, next |-> 1,
                session_name |-> session_name, skip_existing |-> skip_existing,
                processed |-> <<>>, failed |-> <<>>, known_urls |-> {},
                held |-> <<>>, base |-> <<>>]
    /\ sum = <<>>
    /\ acq = <<>>
    /\ txt = <<>>

PlaylistFrame == UNCHANGED <<failedOn, sum, acq, txt, appenders>>

\* main, lines 184-191: the named session is loaded, or the run ends with
\* parser.error; known_urls starts from the session's video_urls
PlaylistLoad ==
    /\ rt.pc = "start"
    /\ IF rt.session_name = <<>>
       THEN /\ rt' = [rt EXCEPT !.pc = "loop"]
            /\ UNCHANGED <<disk, current_session, rag>>
       ELSE LET name == rt.session_name[1]
                loaded == rag_load_session(disk[name], name, rag)
            IN  /\ disk' = [disk EXCEPT ![name] = loaded.dir]
                /\ current_session' = loaded.ret
                /\ rag' = loaded.rag
                /\ rt' = IF loaded.ret = <<>>
                         THEN [rt EXCEPT !.pc = "error"]
                         ELSE [rt EXCEPT !.pc = "loop",
                                         !.known_urls = {loaded.ret[1].video_urls[i] :
                                                            i \in DOMAIN loaded.ret[1].video_urls},
                                         !.held = loaded.ret[1].video_urls,
                                         !.base = loaded.dir.index]
    /\ UNCHANGED <<clock, lastOp, faults>>
    /\ PlaylistFrame

SkipEntry_LoadedOnly(r, session_data, video_url) ==
    /\ r.skip_existing
    /\ session_data # <<>>
    /\ \E i \in DOMAIN r.held : r.held[i] = video_url
\* args.skip_existing and session_data and video_url in known_urls
SkipEntry(r, session_data, video_url) ==
    /\ r.skip_existing
    /\ session_data # <<>>
    /\ video_url \in r.known_urls

\* main, lines 195-245: one entry of the playlist is skipped, ingested into a
\* new session (process_video) or appended to the session held
\* (add_video_to_session); an exception counts the entry as failed
PlaylistEntry(contentOk, fault) ==
    /\ rt.pc = "loop"
    /\ rt.next <= Len(rt.entries)
    /\ LET video_url == rt.entries[rt.next]
           step == [rt EXCEPT !.next = @ + 1]
       IN  IF SkipEntry(rt, current_session, video_url)
           THEN /\ fault = "none" /\ contentOk
                /\ rt' = step
                /\ lastOp' = Op("skip", "", "n/a")
                /\ UNCHANGED <<disk, current_session, rag, clock, faults>>
           ELSE /\ Inject(fault)
                /\ clock' = clock + 1
                /\ LET result == IF current_session = <<>>
                                 THEN process_video(disk, rag, video_url, contentOk, fault,
                                                    clock + 1)
                                 ELSE add_video_to_session(disk, rag, current_session[1],
                                                           video_url, contentOk, fault)
                   IN  /\ disk' = result.dir
                       /\ rag' = result.rag
                       /\ IF result.ret = <<>>
                          THEN /\ rt' = [step EXCEPT !.failed = Append(@, video_url)]
                               /\ lastOp' = Op("ingest", "", "fail")
                               /\ UNCHANGED current_session
                          ELSE /\ current_session' = result.ret
                               /\ rt' = [step EXCEPT
                                           !.session_name =
                                               IF current_session = <<>>
                                               THEN <<result.ret[1].session_name>> ELSE @,
                                           !.known_urls =
                                               @ \cup {result.ret[1].video_urls[i] :
                                                          i \in DOMAIN result.ret[1].video_urls},
                                           !.processed = Append(@, video_url)]
                               /\ lastOp' = Op("ingest", result.ret[1].session_name, "ok")
    /\ PlaylistFrame

\* main, lines 247-253: the playlist is exhausted and the totals are printed
PlaylistFinish ==
    /\ rt.pc = "loop"
    /\ rt.next > Len(rt.entries)
    /\ rt' = [rt EXCEPT !.pc = "done"]
    /\ UNCHANGED <<disk, current_session, rag, clock, lastOp, faults>>
    /\ PlaylistFrame

NextPlaylist ==
    \/ PlaylistLoad
    \/ \E contentOk \in BOOLEAN, fault \in Faults : PlaylistEntry(contentOk, fault)
    \/ PlaylistFinish

SpecPlaylist == InitPlaylist /\ [][NextPlaylist]_vars

\* the final session as persisted
FinalSession == disk[rt.session_name[1]]

\* C37: when the ingestion has finished, the video_urls persisted in the final
\* session are the URLs the session held before followed by the URLs of the
\* videos counted as processed, in playlist order; its documents are those
\* videos' documents and its index holds the previous chunks and the chunks of
\* the processed videos, so a failed video has left nothing.
C37_PersistedIsHeldPlusProcessed ==
    (rt.pc = "done" /\ rt.session_name # <<>>) =>
        /\ FinalSession.metadata.video_urls = rt.held \o rt.processed
        /\ SourcesOf(DocumentsOfRecords(FinalSession.metadata.documents)) = rt.held \o rt.processed
        /\ FinalSession.index =
              rt.base \o split_documents([i \in DOMAIN rt.processed |->
                                             get_video_content(rt.processed[i])],
                                         RecordedConfig(FinalSession))

\* ---------------------------------------------------------------------------
\* 'save as': the copy and the session it was taken from (Spec)
\* ---------------------------------------------------------------------------

\* C38: a session saved under a new name holds the same per-video documents,
\* video_urls and summaries as the current session, one summary record per
\* document, also when the current session holds several videos.
C38_SaveAsKeepsShape ==
    [][ (lastOp'.op = "save_as" /\ lastOp'.ret = "ok") =>
          LET session_data == current_session[1]
              saved == disk'[lastOp'.name].metadata
          IN  /\ DocumentsOfRecords(saved.documents) = session_data.documents
              /\ saved.video_urls = session_data.video_urls
              /\ saved.summaries = session_data.summaries
              /\ Len(saved.summaries) = Len(saved.documents) ]_vars

\* ---------------------------------------------------------------------------
\* GradioInterface: the chat interface as a state machine (SpecUi)
\* ---------------------------------------------------------------------------

\* The fields of GradioInterface (rag_system and qa_chain: whether they are
\* set; current_session is the variable of that name) and, for the record,
\* what has been done since the last 'reset' (done), whether an input was
\* refused or an attempt failed since then (refused) and whether 'reset' was
\* sent in state 'ready' (restarted).
Interface(state, rag_system, qa_chain, language, sessions_list, done, refused, restarted) ==
    [state |-> state, rag_system |-> rag_system, qa_chain |-> qa_chain,
     language |-> language, sessions_list |-> sessions_list,
     done |-> done, refused |-> refused, restarted |-> restarted]

reset_system_KeepState(ui) ==
    Interface(ui.state, FALSE, FALSE, "zh", ui.sessions_list, {}, FALSE,
              ui.restarted \/ ui.state = "ready")
\* reset_system: every field back to its initial value (sessions_list is not
\* touched)
reset_system(ui) ==
    Interface("api_key", FALSE, FALSE, "zh", ui.sessions_list, {}, FALSE,
              ui.restarted \/ ui.state = "ready")

InitUi ==
    /\ disk = [n \in SessionNames |-> NoDir]
    /\ current_session = <<>>
    /\ rag = DefaultRag
    /\ clock = 0
    /\ appenders = <<>>
    /\ lastOp = Op("init", "", "n/a")
    /\ failedOn = {}
    /\ faults = 0
    /\ rt = Interface("api_key", FALSE, FALSE, "zh", <<>>, {}, FALSE, FALSE)
    /\ sum = <<>>
    /\ acq = <<>>
    /\ txt = <<>>

MaxVideos == 2    \* videos ingested by process_video in one behaviour
MaxAdded == 2     \* documents a session of the interface may hold

UiFrame == UNCHANGED <<failedOn, faults, sum, acq, txt, appenders>>

\* an input the handler refuses, or an attempt that failed: the reply is an
\* error message
Refused(handler, ui) ==
    /\ rt' = [ui EXCEPT !.refused = TRUE]
    /\ lastOp' = Op(handler, "", "refused")

\* 'reset' in any state
UiReset ==
    /\ rt' = reset_system(rt)
    /\ current_session' = <<>>
    /\ lastOp' = Op("reset", "", "n/a")
    /\ UNCHANGED <<disk, rag, clock>>
    /\ UiFrame

\* _handle_api_key
UiApiKey(valid) ==
    /\ rt.state = "api_key"
    /\ IF ~valid
       THEN Refused("_handle_api_key", rt)
       ELSE /\ rt' = [rt EXCEPT !.state = "language_choice", !.done = @ \cup {"api_key"}]
            /\ lastOp' = Op("_handle_api_key", "", "ok")
    /\ UNCHANGED <<disk, current_session, rag, clock>>
    /\ UiFrame

\* _handle_language_choice
UiLanguageChoice(choice) ==
    /\ rt.state = "language_choice"
    /\ IF choice \notin {"1", "2"}
       THEN Refused("_handle_language_choice", rt)
       ELSE /\ rt' = [rt EXCEPT !.state = "action_choice",
                                !.language = IF choice = "1" THEN "zh" ELSE "en",
                                !.done = @ \cup {"language"}]
            /\ lastOp' = Op("_handle_language_choice", "", "ok")
    /\ UNCHANGED <<disk, current_session, rag, clock>>
    /\ UiFrame

\* _handle_action_choice: "1" asks for a video, "2" lists the saved sessions
\* (and asks for a video when there is none)
UiActionChoice(choice) ==
    /\ rt.state = "action_choice"
    /\ LET sessions == list_sessions(disk).ret
       IN  IF choice = "1"
           THEN /\ rt' = [rt EXCEPT !.state = "new_video"]
                /\ lastOp' = Op("_handle_action_choice", "", "ok")
           ELSE IF choice = "2"
           THEN /\ rt' = IF sessions = <<>>
                         THEN [rt EXCEPT !.state = "new_video"]
                         ELSE [rt EXCEPT !.state = "session_select",
                                         !.sessions_list =
                                             [i \in DOMAIN sessions |-> sessions[i].name]]
                /\ lastOp' = Op("_handle_action_choice", "", "ok")
           ELSE Refused("_handle_action_choice", rt)
    /\ UNCHANGED <<disk, current_session, rag, clock>>
    /\ UiFrame

\* _handle_new_video: the URL is validated, a YouTubeRAG is built and
\* assigned, then process_video; an exception is answered with an error
UiNewVideo(url, contentOk) ==
    /\ rt.state = "new_video"
    /\ IF ~validate_youtube_url(url)
       THEN /\ Refused("_handle_new_video", rt)
            /\ UNCHANGED <<disk, current_session, rag, clock>>
       ELSE /\ clock < MaxVideos
            /\ clock' = clock + 1
            /\ LET r == [DefaultRag EXCEPT !.language = rt.language]
                   result == process_video(disk, r, url, contentOk, "none", clock + 1)
               IN  /\ disk' = result.dir
                   /\ rag' = result.rag
                   /\ IF result.ret = <<>>
                      THEN /\ Refused("_handle_new_video", [rt EXCEPT !.rag_system = TRUE])
                           /\ UNCHANGED current_session
                      ELSE /\ current_session' = result.ret
                           /\ rt' = [rt EXCEPT !.state = "ready", !.rag_system = TRUE,
                                               !.qa_chain = TRUE,
                                               !.done = @ \cup {"session"}]
                           /\ lastOp' = Op("_handle_new_video", result.ret[1].session_name, "ok")
    /\ UiFrame

\* _handle_session_select by name: a name not in the list is refused; else a
\* YouTubeRAG is built and assigned and the session loaded
UiSessionSelect(choice) ==
    /\ rt.state = "session_select"
    /\ IF ~\E i \in DOMAIN rt.sessions_list : rt.sessions_list[i] = choice
       THEN /\ Refused("_handle_session_select", rt)
            /\ UNCHANGED <<disk, current_session, rag>>
       ELSE LET loaded == rag_load_session(disk[choice], choice, DefaultRag)
            IN  /\ disk' = [disk EXCEPT ![choice] = loaded.dir]
                /\ rag' = loaded.rag
                /\ IF loaded.ret = <<>>
                   THEN /\ Refused("_handle_session_select", [rt EXCEPT !.rag_system = TRUE])
                        /\ UNCHANGED current_session
                   ELSE /\ current_session' = loaded.ret
                        /\ rt' = [rt EXCEPT !.state = "ready", !.rag_system = TRUE,
                                            !.qa_chain = TRUE,
                                            !.language = loaded.ret[1].language,
                                            !.done = @ \cup {"session"}]
                        /\ lastOp' = Op("_handle_session_select", choice, "ok")
    /\ UNCHANGED clock
    /\ UiFrame

\* _handle_questions, 'add video URL': the result replaces current_session
\* and qa_chain; an invalid URL or an exception is answered with an error
UiAddVideo(url, contentOk) ==
    /\ rt.state = "ready"
    /\ Len(current_session[1].documents) < MaxAdded
    /\ IF ~validate_youtube_url(url)
       THEN /\ Refused("_handle_questions", rt)
            /\ UNCHANGED <<disk, current_session, rag>>
       ELSE LET result == add_video_to_session(disk, rag, current_session[1], url,
                                               contentOk, "none")
            IN  /\ disk' = result.dir
                /\ rag' = result.rag
                /\ IF result.ret = <<>>
                   THEN /\ Refused("_handle_questions", rt)
                        /\ UNCHANGED current_session
                   ELSE /\ current_session' = result.ret
                        /\ rt' = [rt EXCEPT !.qa_chain = TRUE]
                        /\ lastOp' = Op("_handle_questions", result.ret[1].session_name, "ok")
    /\ UNCHANGED clock
    /\ UiFrame

\* delete_session(name) from the command line while the interface runs
UiCliDelete(name) ==
    /\ disk[name].exists
    /\ faults < MaxFaults
    /\ faults' = faults + 1
    /\ disk' = delete_session(disk, name, "removed").dir
    /\ lastOp' = Op("delete_session", name, "ok")
    /\ UNCHANGED <<current_session, rag, clock, rt, failedOn, sum, acq, txt, appenders>>

\* the messages of the chat: keys, choices, URLs, session names
UiUrls == VideoUrls \cup {[form |-> "vimeo", id |-> "a"]}

NextUi ==
    \/ UiReset
    \/ \E valid \in BOOLEAN : UiApiKey(valid)
    \/ \E choice \in {"1", "2", "x"} : UiLanguageChoice(choice)
    \/ \E choice \in {"1", "2", "x"} : UiActionChoice(choice)
    \/ \E url \in UiUrls, contentOk \in BOOLEAN : UiNewVideo(url, contentOk)
    \/ \E choice \in SessionNames \cup {"ghost"} : UiSessionSelect(choice)
    \/ \E url \in UiUrls, contentOk \in BOOLEAN : UiAddVideo(url, contentOk)
    \/ \E name \in SessionNames : UiCliDelete(name)

SpecUi == InitUi /\ [][NextUi]_vars

\* C39: in state 'ready' rag_system, qa_chain and current_session are set and
\* a valid API key, a language choice and a successful processing or load have
\* taken place since the last 'reset'; a refused input, a failed processing
\* and a failed load leave the state where it was.
C39_ReadyIsComplete ==
    [][ /\ rt'.state = "ready" =>
             /\ rt'.rag_system
             /\ rt'.qa_chain
             /\ current_session' # <<>>
             /\ rt'.done = {"api_key", "language", "session"}
        /\ lastOp'.ret = "refused" => rt'.state = rt.state ]_vars

\* 'ready' reached again after a 'reset' sent in state 'ready' and after a
\* refused input or failed attempt
C39_Witness ==
    /\ rt.state = "ready"
    /\ rt.restarted
    /\ rt.refused
    /\ rt.rag_system /\ rt.qa_chain /\ current_session # <<>>

\* how many times url occurs in urls
Occurrences(url, urls) == Cardinality({i \in DOMAIN urls : urls[i] = url})

\* C40: with --skip-existing no video is ingested whose URL the loaded
\* session held or which was ingested earlier in the run, so the persisted
\* video_urls of the session hold no URL more often than before the run, or
\* once if it was not held.
C40_SkipExistingNeverRepeats ==
    (rt.skip_existing /\ rt.pc \in {"loop", "done"} /\ rt.session_name # <<>>) =>
        /\ \A i \in DOMAIN rt.processed :
              /\ Occurrences(rt.processed[i], rt.held) = 0
              /\ Occurrences(rt.processed[i], rt.processed) = 1
        /\ FinalSession.meta = "ok" =>
              \A url \in VideoUrls :
                  Occurrences(url, FinalSession.metadata.video_urls)
                      <= Max(Occurrences(url, rt.held), 1)

\* the playlist held the session's video, then a new video twice: the first
\* was skipped, the new one ingested once and skipped the second time
C40_Witness ==
    /\ rt.pc = "done"
    /\ rt.skip_existing
    /\ Len(rt.held) = 1
    /\ Len(rt.entries) = 3
    /\ rt.entries[1] = rt.held[1]
    /\ rt.entries[2] # rt.held[1]
    /\ rt.entries[3] = rt.entries[2]
    /\ rt.processed = <<rt.entries[2]>>
    /\ rt.failed = <<>>
    /\ FinalSession.metadata.video_urls = <<rt.held[1], rt.entries[2]>>

====
